---- MODULE Spec2Model ----
(***************************************************************************)
(* Wallet contract of hyli-org/wallet: the host executor (Wallet), the     *)
(* guest executor (WalletZkView) and the account state machine they share. *)
(*                                                                         *)
(* Hashes (SHA-256 of an identity, of a serialized record, of a root and   *)
(* a key) are modelled as injective constructors: two hashes are equal     *)
(* exactly when their inputs are.  The sparse Merkle tree is the map from  *)
(* account keys to records; its root is the map from keys to leaf hashes;  *)
(* a single-key Merkle proof is that map without the proved key.           *)
(***************************************************************************)
EXTENDS Integers, Sequences, FiniteSets, TLC

\* ------------------------------------------------------------------ bounds
MaxNonce == 2

MaxScanBlobs == 3

MaxWitnesses == 4

MaxBatch == 2

MaxRows == 2

MaxCalls == 2

MaxTime == 160

ChannelCapacity == 1

\* ------------------------------------------------------------------ data
Identities == {"alice", "bob", "hyli"}

DEFAULT_INVITE_CODE_PUBLIC_KEY == "default_key"

NoLane == "no_lane"

None == [some |-> FALSE, set |-> {}]

Some(S) == [some |-> TRUE, set |-> S]

Hex(bytes) == <<"hex", bytes>>

Sha256(m) == [sha256 |-> m]

AuthUninitialized == [type |-> "Uninitialized", v |-> <<>>]

AuthPassword(hash) == [type |-> "Password", v |-> hash]

\* an address as the account holds it: with or without the 0x prefix, and its digits
\* in lower case
Address(prefix, hex) == [prefix |-> prefix, hex |-> hex]

AuthEthereum(address) == [type |-> "Ethereum", v |-> address]

AuthHyliApp(address) == [type |-> "HyliApp", v |-> address]

\* address.trim_start_matches("0x").to_lowercase()
ExpectedAddress(address) == address.hex

Keccak256(m) == [keccak256 |-> m]

\* utils::parse_public_key: the bytes are a point of the curve
parse_public_key(bytes) == bytes # "not_a_key"

AccountInfoDefault ==
    [identity |-> "", auth_method |-> AuthUninitialized, session_keys |-> <<>>, nonce |-> 0]

SessionKey(public_key, expiration_date, whitelist, lane_id) ==
    [public_key |-> public_key, expiration_date |-> expiration_date,
     whitelist |-> whitelist, lane_id |-> lane_id]

\* ------------------------------------------------------------------ SMT
compute_key(identity) == <<"sha256", identity>>

Keys == {compute_key(i) : i \in Identities}

ZeroLeaf == [zero |-> TRUE, of |-> AccountInfoDefault]

to_h256(account_info) ==
    IF account_info.auth_method = AuthUninitialized
    THEN ZeroLeaf
    ELSE [zero |-> FALSE, of |-> account_info]

SmtDefault == [k \in Keys |-> AccountInfoDefault]

\* get() of the tree: the zero value for an absent key
SmtGet(smt_, key) == IF key \in DOMAIN smt_ THEN smt_[key] ELSE AccountInfoDefault

\* mutant: the update of one leaf clears the other leaves
SmtUpdate_clearing_others(smt_, key, value) ==
    [k \in DOMAIN smt_ |-> IF k = key /\ ~to_h256(value).zero THEN value
                           ELSE AccountInfoDefault]

\* update() of the tree: a value hashing to zero deletes the leaf
SmtUpdate(smt_, key, value) ==
    [smt_ EXCEPT ![key] = IF to_h256(value).zero THEN AccountInfoDefault ELSE value]

SmtRoot(smt_) == [k \in Keys |-> to_h256(smt_[k])]

SmtMerkleProof(smt_, key) ==
    [key |-> key, siblings |-> [k \in Keys \ {key} |-> to_h256(smt_[k])]]

ProofComputeRoot(proof, key, leaf) ==
    [k \in Keys |-> IF k = key THEN leaf
                    ELSE IF k \in DOMAIN proof.siblings THEN proof.siblings[k]
                    ELSE ZeroLeaf]

ProofVerify(proof, root, key, leaf) == ProofComputeRoot(proof, key, leaf) = root

get_state_commitment(root, pubkey) == [root |-> root, pubkey |-> pubkey]

\* ------------------------------------------------------------------ actions and blobs
ActionDefault ==
    [type |-> "None", account |-> "", nonce |-> 0, salt |-> "",
     auth_method |-> AuthUninitialized, invite_code |-> "",
     key |-> <<>>, expiration_date |-> 0, whitelist |-> None, lane_id |-> NoLane,
     invite_code_public_key |-> "", smt_root |-> SmtRoot(SmtDefault)]

RegisterIdentity(account, nonce, salt, auth_method, invite_code) ==
    [ActionDefault EXCEPT !.type = "RegisterIdentity", !.account = account,
        !.nonce = nonce, !.salt = salt, !.auth_method = auth_method,
        !.invite_code = invite_code]

VerifyIdentity(account, nonce) ==
    [ActionDefault EXCEPT !.type = "VerifyIdentity", !.account = account, !.nonce = nonce]

AddSessionKey(account, key, expiration_date, whitelist, lane_id, nonce) ==
    [ActionDefault EXCEPT !.type = "AddSessionKey", !.account = account, !.key = key,
        !.expiration_date = expiration_date, !.whitelist = whitelist,
        !.lane_id = lane_id, !.nonce = nonce]

RemoveSessionKey(account, key, nonce) ==
    [ActionDefault EXCEPT !.type = "RemoveSessionKey", !.account = account,
        !.key = key, !.nonce = nonce]

UseSessionKey(account, nonce) ==
    [ActionDefault EXCEPT !.type = "UseSessionKey", !.account = account, !.nonce = nonce]

UpdateInviteCodePublicKey(invite_code_public_key, smt_root) ==
    [ActionDefault EXCEPT !.type = "UpdateInviteCodePublicKey",
        !.invite_code_public_key = invite_code_public_key, !.smt_root = smt_root]

\* 'Sign in to Hyli as {identity} with nonce {nonce}'
SignInMsg(identity, nonce) == [kind |-> "sign_in", identity |-> identity, nonce |-> nonce]

\* '\x19Ethereum Signed Message:\n{len}{message}'
EthereumSignedMsg(message) == [kind |-> "ethereum_signed", message |-> message]

\* '{identity}:{nonce}:hyliapp'
HyliAppMsg(identity, nonce) == [kind |-> "hyliapp", identity |-> identity, nonce |-> nonce]

\* messages signed in a secp256k1 blob
MsgDefault == [kind |-> "none", n |-> 0, code |-> "", account |-> ""]

NonceMsg(nonce) == [MsgDefault EXCEPT !.kind = "nonce", !.n = nonce]

InviteMsg(invite_code, account) ==
    [MsgDefault EXCEPT !.kind = "invite", !.code = invite_code, !.account = account]

SecpDefault == [identity |-> "", data |-> Sha256(MsgDefault), public_key |-> ""]

\* blob payloads: what the bytes decode to
DataDefault == [kind |-> "Raw", action |-> ActionDefault, bytes |-> "", secp |-> SecpDefault]

Blob(contract_name, data) == [contract_name |-> contract_name, data |-> data]

as_blob(action, contract_name) ==
    Blob(contract_name, [DataDefault EXCEPT !.kind = "WalletAction", !.action = action])

RawBlob(contract_name, bytes) ==
    Blob(contract_name, [DataDefault EXCEPT !.bytes = bytes])

Secp256k1Blob(identity, msg, public_key) ==
    Blob("secp256k1", [DataDefault EXCEPT !.kind = "Secp256k1Blob",
        !.secp = [identity |-> identity, data |-> Sha256(msg), public_key |-> public_key]])

from_blob_data(data) ==
    IF data.kind = "WalletAction"
    THEN [ok |-> TRUE, action |-> data.action]
    ELSE [ok |-> FALSE, action |-> ActionDefault]

\* IndexedBlobs::from(vec): the blobs numbered from 0
IndexedBlobs(blobs) == [i \in 1..Len(blobs) |-> [index |-> i - 1, blob |-> blobs[i]]]

NoTxCtx == [present |-> FALSE, timestamp |-> 0, lane_id |-> NoLane]

TxCtx(timestamp, lane_id) == [present |-> TRUE, timestamp |-> timestamp, lane_id |-> lane_id]

Calldata(identity, blobs, tx_blob_count, index, tx_ctx) ==
    [identity |-> identity, blobs |-> blobs, tx_blob_count |-> tx_blob_count,
     index |-> index, tx_ctx |-> tx_ctx]

Ok(msg, account_info) == [ok |-> TRUE, msg |-> msg, account_info |-> account_info]

Err(msg, account_info) == [ok |-> FALSE, msg |-> msg, account_info |-> account_info]

\* ------------------------------------------------------------------ call data access
\* positions of the blobs of a contract, in iteration order
BlobPositions(calldata, contract_name) ==
    {i \in DOMAIN calldata.blobs : calldata.blobs[i].blob.contract_name = contract_name}

FirstPosition(positions) == CHOOSE i \in positions : \A j \in positions : i <= j

\* IndexedBlobs::get(index)
BlobsGet(calldata, index) ==
    LET at == {i \in DOMAIN calldata.blobs : calldata.blobs[i].index = index}
    IN  IF at = {} THEN [found |-> FALSE, blob |-> Blob("", DataDefault)]
        ELSE [found |-> TRUE, blob |-> calldata.blobs[FirstPosition(at)].blob]

parse_raw_calldata(calldata) ==
    LET b == BlobsGet(calldata, calldata.index)
    IN  IF ~b.found THEN [ok |-> FALSE, msg |-> "Could not find Blob at index", action |-> ActionDefault]
        ELSE IF ~from_blob_data(b.blob.data).ok
             THEN [ok |-> FALSE, msg |-> "Could not deserialize Blob at index", action |-> ActionDefault]
             ELSE [ok |-> TRUE, msg |-> "", action |-> from_blob_data(b.blob.data).action]

\* CheckSecp256k1::new(calldata, expected).expect(): the first secp256k1 blob, which
\* must be signed by the transaction identity over the expected data
CheckSecp256k1Expect(calldata, expected) ==
    LET at == BlobPositions(calldata, "secp256k1")
    IN  IF at = {} THEN [ok |-> FALSE, msg |-> "Missing secp256k1 blob", secp |-> SecpDefault]
        ELSE LET d == calldata.blobs[FirstPosition(at)].blob.data
             IN  IF d.kind # "Secp256k1Blob"
                 THEN [ok |-> FALSE, msg |-> "Failed to decode Secp256k1Blob", secp |-> SecpDefault]
                 ELSE IF d.secp.identity # calldata.identity
                 THEN [ok |-> FALSE, msg |-> "Secp256k1Blob identity does not match", secp |-> SecpDefault]
                 ELSE IF d.secp.data # Sha256(expected)
                 THEN [ok |-> FALSE, msg |-> "Secp256k1Blob data does not match", secp |-> SecpDefault]
                 ELSE [ok |-> TRUE, msg |-> "", secp |-> d.secp]

\* ------------------------------------------------------------------ AuthMethod
\* AuthMethod::verify, the Password arm: the first check_secret blob of the call data
PasswordVerify(hash, calldata) ==
    LET at == BlobPositions(calldata, "check_secret")
    IN  IF at = {} THEN [ok |-> FALSE, msg |-> "Missing check_secret blob"]
        ELSE IF Hex(calldata.blobs[FirstPosition(at)].blob.data.bytes) # hash
             THEN [ok |-> FALSE, msg |-> "Invalid authentication"]
             ELSE [ok |-> TRUE, msg |-> "Authentication successful"]

\* the digest the witness blob must carry: Keccak256 of the prefixed sign-in message
\* for Ethereum, Sha256 of '{identity}:{nonce}:hyliapp' for HyliApp
ExpectedDigest(type, identity, wallet_blob_nonce) ==
    IF type = "Ethereum"
    THEN Keccak256(EthereumSignedMsg(SignInMsg(identity, wallet_blob_nonce)))
    ELSE Sha256(HyliAppMsg(identity, wallet_blob_nonce))

\* the address of a public key: ethereum_address_from_public_key for Ethereum, the
\* first 20 bytes of the key's Sha256 for HyliApp
DerivedAddress(type, public_key) ==
    IF type = "Ethereum" THEN <<"keccak256[12..]", public_key>>
    ELSE <<"sha256[..20]", public_key>>

\* AuthMethod::verify, the Ethereum and HyliApp arms: the blob at index 1 of the
\* transaction, decoded as a Secp256k1Blob
EcdsaVerify(type, address, calldata, wallet_blob_nonce) ==
    LET b == BlobsGet(calldata, 1)
        secp == b.blob.data.secp
    IN  IF ~b.found THEN [ok |-> FALSE, msg |-> "Invalid blob index for secp256k1"]
        ELSE IF b.blob.data.kind # "Secp256k1Blob"
        THEN [ok |-> FALSE, msg |-> "Failed to decode Secp256k1Blob"]
        ELSE IF secp.data # ExpectedDigest(type, calldata.identity, wallet_blob_nonce)
        THEN [ok |-> FALSE, msg |-> "Invalid signature data"]
        ELSE IF ~parse_public_key(secp.public_key)
        THEN [ok |-> FALSE, msg |-> "Invalid secp256k1 public key"]
        ELSE IF DerivedAddress(type, secp.public_key) # ExpectedAddress(address)
        THEN [ok |-> FALSE, msg |-> "Invalid address"]
        ELSE [ok |-> TRUE, msg |-> "Authentication successful"]

\* mutant: an account that was never registered authenticates
AuthVerify_uninitialized_passes(auth_method, calldata, wallet_blob_nonce) ==
    IF auth_method.type = "Password" THEN PasswordVerify(auth_method.v, calldata)
    ELSE IF auth_method.type \in {"Ethereum", "HyliApp"}
    THEN EcdsaVerify(auth_method.type, auth_method.v, calldata, wallet_blob_nonce)
    ELSE [ok |-> TRUE, msg |-> "Authentication successful"]

\* AuthMethod::verify (accounts authenticated by Jwt are not part of the model)
AuthVerify(auth_method, calldata, wallet_blob_nonce) ==
    IF auth_method.type = "Password" THEN PasswordVerify(auth_method.v, calldata)
    ELSE IF auth_method.type \in {"Ethereum", "HyliApp"}
    THEN EcdsaVerify(auth_method.type, auth_method.v, calldata, wallet_blob_nonce)
    ELSE [ok |-> FALSE, msg |-> "Wallet is not initialized"]

\* mutant: the public key of the invite blob is not compared with the wallet's
check_for_invite_code_any_key(account, invite_code, calldata, invite_code_public_key_) ==
    LET c == CheckSecp256k1Expect(calldata, InviteMsg(invite_code, account))
    IN  IF ~c.ok THEN [ok |-> FALSE, msg |-> c.msg] ELSE [ok |-> TRUE, msg |-> ""]

check_for_invite_code(account, invite_code, calldata, invite_code_public_key_) ==
    LET c == CheckSecp256k1Expect(calldata, InviteMsg(invite_code, account))
    IN  IF ~c.ok THEN [ok |-> FALSE, msg |-> c.msg]
        ELSE IF c.secp.public_key # invite_code_public_key_
             THEN [ok |-> FALSE, msg |-> "Invalid public key"]
             ELSE [ok |-> TRUE, msg |-> ""]

\* ------------------------------------------------------------------ AccountInfo
\* Every method returns its result together with the record as the call left it:
\* the methods take &mut self, and a method that fails keeps what it wrote before.

\* mutant: the scan also reads the blob at the current index
check_verify_identity_in_previous_blobs_inclusive(calldata, expected_account) ==
    \E i \in DOMAIN calldata.blobs :
        /\ \A j \in 1..i : calldata.blobs[j].index <= calldata.index
        /\ calldata.blobs[i].blob.contract_name = "wallet"
        /\ from_blob_data(calldata.blobs[i].blob.data).ok
        /\ from_blob_data(calldata.blobs[i].blob.data).action.type
               \in {"VerifyIdentity", "RegisterIdentity"}
        /\ from_blob_data(calldata.blobs[i].blob.data).action.account = expected_account

check_verify_identity_in_previous_blobs(calldata, expected_account) ==
    LET before ==
            {i \in DOMAIN calldata.blobs :
                \A j \in 1..i : calldata.blobs[j].index < calldata.index}
        proves(i) ==
            /\ calldata.blobs[i].blob.contract_name = "wallet"
            /\ from_blob_data(calldata.blobs[i].blob.data).ok
            /\ from_blob_data(calldata.blobs[i].blob.data).action.type
                   \in {"VerifyIdentity", "RegisterIdentity"}
            /\ from_blob_data(calldata.blobs[i].blob.data).action.account = expected_account
    IN  \E i \in before : proves(i)

\* mutant: the record is written whether or not it is registered already
register_identity_overwrite(self, account, nonce, auth_method) ==
    Ok("Successfully registered identity",
       [self EXCEPT !.auth_method = auth_method, !.nonce = nonce])

register_identity(self, account, nonce, auth_method) ==
    IF self.identity # account THEN Err("Identity already registered", self)
    ELSE IF self.auth_method # AuthUninitialized THEN Err("Identity already registered", self)
    ELSE Ok("Successfully registered identity",
            [self EXCEPT !.auth_method = auth_method, !.nonce = nonce])

\* mutant: the nonce is written without being compared with the record's
verify_and_update_nonce_unchecked(self, nonce, calldata) ==
    Ok("Identity verified", [self EXCEPT !.nonce = nonce])

\* mutant: an equal nonce is accepted without the scan of the previous blobs
verify_and_update_nonce_no_proof(self, nonce, calldata) ==
    IF nonce < self.nonce THEN Err("Invalid nonce", self)
    ELSE Ok("Identity verified", [self EXCEPT !.nonce = nonce])

verify_and_update_nonce(self, nonce, calldata) ==
    IF nonce < self.nonce THEN Err("Invalid nonce", self)
    ELSE IF nonce = self.nonce
    THEN IF check_verify_identity_in_previous_blobs(calldata, self.identity)
         THEN Ok("Identity verified", self)
         ELSE Err("No action that proves identity found in previous blobs", self)
    ELSE Ok("Identity verified", [self EXCEPT !.nonce = nonce])

\* mutant: the key is appended without looking for its public key in the record
add_session_key_unchecked(self, key, expiration_date, whitelist, lane_id) ==
    Ok("Session key added",
       [self EXCEPT !.session_keys =
           Append(@, SessionKey(key, expiration_date, whitelist, lane_id))])

add_session_key(self, key, expiration_date, whitelist, lane_id) ==
    IF \E i \in DOMAIN self.session_keys : self.session_keys[i].public_key = key
    THEN Err("Session key already exists", self)
    ELSE Ok("Session key added",
            [self EXCEPT !.session_keys =
                Append(@, SessionKey(key, expiration_date, whitelist, lane_id))])

remove_session_key(self, key) ==
    LET keep(sk) == sk.public_key # key
        retained == SelectSeq(self.session_keys, keep)
    IN  IF Len(retained) = Len(self.session_keys)
        THEN Err("Session key not found", [self EXCEPT !.session_keys = retained])
        ELSE Ok("Session key removed", [self EXCEPT !.session_keys = retained])

\* mutant: a call data with fewer blobs than the transaction is let through
AllBlobsInCalldata_at_most(calldata) == Len(calldata.blobs) <= calldata.tx_blob_count

\* mutant: the whitelist loop reads only the blobs after the executed one
BlobsWhitelisted_after_current(session_key, calldata) ==
    \A i \in DOMAIN calldata.blobs :
        \/ calldata.blobs[i].index <= calldata.index
        \/ calldata.blobs[i].blob.contract_name = "secp256k1"
        \/ ~session_key.whitelist.some
        \/ calldata.blobs[i].blob.contract_name \in session_key.whitelist.set

\* use_session_key, the check that the call data holds every blob of the transaction
AllBlobsInCalldata(calldata) == Len(calldata.blobs) = calldata.tx_blob_count

\* use_session_key, the whitelist loop over the blobs of the call data
BlobsWhitelisted(session_key, calldata) ==
    \A i \in DOMAIN calldata.blobs :
        \/ calldata.blobs[i].index = calldata.index
        \/ calldata.blobs[i].blob.contract_name = "secp256k1"
        \/ ~session_key.whitelist.some
        \/ calldata.blobs[i].blob.contract_name \in session_key.whitelist.set

\* mutant: a session key is accepted on every lane
LaneAllowed_any(session_key, tx_ctx) == TRUE

\* use_session_key, the lane check
LaneAllowed(session_key, tx_ctx) ==
    ~(session_key.lane_id # NoLane /\ session_key.lane_id # tx_ctx.lane_id)

\* mutant: a session key is still valid at its expiration date
NotExpired_inclusive(session_key, tx_ctx) ==
    session_key.expiration_date >= tx_ctx.timestamp

\* use_session_key, the expiration check
NotExpired(session_key, tx_ctx) == session_key.expiration_date > tx_ctx.timestamp

use_session_key(self, public_key, calldata) ==
    IF ~calldata.tx_ctx.present THEN Err("tx_ctx is missing", self)
    ELSE IF ~AllBlobsInCalldata(calldata)
    THEN Err("All blobs should be in the Calldata for whitelist validation", self)
    ELSE LET at == {i \in DOMAIN self.session_keys :
                        self.session_keys[i].public_key = public_key}
         IN  IF at = {} THEN Err("Session key not found", self)
             ELSE LET session_key == self.session_keys[FirstPosition(at)]
                  IN  IF ~BlobsWhitelisted(session_key, calldata)
                      THEN Err("Blob not whitelisted", self)
                      ELSE IF ~LaneAllowed(session_key, calldata.tx_ctx)
                      THEN Err("Session key not valid for this lane", self)
                      ELSE IF NotExpired(session_key, calldata.tx_ctx)
                      THEN Ok("Session key is valid", self)
                      ELSE Err("Session key expired", self)

handle_registration(self, account, nonce, auth_method, calldata) ==
    IF ~AuthVerify(auth_method, calldata, nonce).ok
    THEN Err(AuthVerify(auth_method, calldata, nonce).msg, self)
    ELSE register_identity(self, account, nonce, auth_method)

handle_session_key_usage(self, account, nonce, calldata) ==
    IF self.identity # account THEN Err("Account does not match registered identity", self)
    ELSE LET c == CheckSecp256k1Expect(calldata, NonceMsg(nonce))
         IN  IF ~c.ok THEN Err(c.msg, self)
             ELSE LET n == verify_and_update_nonce(self, nonce, calldata)
                  IN  IF ~n.ok THEN n
                      ELSE use_session_key(n.account_info, Hex(c.secp.public_key), calldata)

handle_authenticated_action(self, action, calldata) ==
    LET auth == AuthVerify(self.auth_method, calldata, action.nonce)
        n == verify_and_update_nonce(self, action.nonce, calldata)
    IN  IF ~auth.ok THEN Err(auth.msg, self)
        ELSE IF action.type = "VerifyIdentity"
        THEN IF self.identity # action.account
             THEN Err("Account does not match registered identity", self)
             ELSE n
        ELSE IF action.type = "AddSessionKey"
        THEN IF ~n.ok THEN n
             ELSE IF n.account_info.identity # action.account
             THEN Err("Account does not match registered identity", n.account_info)
             ELSE add_session_key(n.account_info, action.key, action.expiration_date,
                                  action.whitelist, action.lane_id)
        ELSE \* RemoveSessionKey
             IF ~n.ok THEN n
             ELSE remove_session_key(n.account_info, action.key)

\* ------------------------------------------------------------------ host: Wallet
WalletOf(key, smt_, salts_) == [invite_code_public_key |-> key, smt |-> smt_, salts |-> salts_]

NoConstructor == [some |-> FALSE, hyli_password_hash |-> <<>>, invite_code_public_key |-> ""]

WalletConstructor(hash, key) ==
    [some |-> TRUE, hyli_password_hash |-> hash, invite_code_public_key |-> key]

SaltsInsert(salts_, account, salt) ==
    [a \in DOMAIN salts_ \cup {account} |-> IF a = account THEN salt ELSE salts_[a]]

construct_state(metadata) ==
    IF metadata.some
    THEN WalletOf(metadata.invite_code_public_key,
                  SmtUpdate(SmtDefault, compute_key("hyli"),
                            [identity |-> "hyli",
                             auth_method |-> AuthPassword(metadata.hyli_password_hash),
                             session_keys |-> <<>>, nonce |-> 0]),
                  SaltsInsert(<<>>, "hyli", "hyli-random-salt"))
    ELSE WalletOf(DEFAULT_INVITE_CODE_PUBLIC_KEY, SmtDefault, <<>>)

\* mutant: the commitment is taken over the serialized leaves instead of the root
WalletCommitment_of_serialized_leaves(wallet) ==
    get_state_commitment(
        LET stored(k) == ~to_h256(wallet.smt[k]).zero
            ks == SelectSeq(wallet.hasher, stored)
        IN  [i \in 1..Len(ks) |-> wallet.smt[ks[i]]],
        wallet.invite_code_public_key)

WalletCommitment(wallet) ==
    get_state_commitment(SmtRoot(wallet.smt), wallet.invite_code_public_key)

ZkView(commitment, key, partial_data) ==
    [commitment |-> commitment, invite_code_public_key |-> key, partial_data |-> partial_data]

\* mutant: the record of the witness keeps the identity it is stored with
build_commitment_metadata_stored_identity(wallet, blob) ==
    LET decoded == from_blob_data(blob.data)
        account == decoded.action.account
    IN  IF decoded.ok /\ decoded.action.type # "UpdateInviteCodePublicKey"
        THEN ZkView(WalletCommitment(wallet), wallet.invite_code_public_key,
                 << [proof |-> SmtMerkleProof(wallet.smt, compute_key(account)),
                     account_info |-> SmtGet(wallet.smt, compute_key(account))] >>)
        ELSE ZkView(WalletCommitment(wallet), wallet.invite_code_public_key, <<>>)

\* mutant: the view of an undecodable blob carries the commitment of an empty wallet
ProofOfFailureView_empty_wallet(wallet) ==
    ZkView(get_state_commitment(SmtRoot(SmtDefault), DEFAULT_INVITE_CODE_PUBLIC_KEY),
           DEFAULT_INVITE_CODE_PUBLIC_KEY, <<>>)

\* build_commitment_metadata, the Err(_) arm: the view of a blob that does not decode
ProofOfFailureView(wallet) ==
    ZkView(WalletCommitment(wallet), wallet.invite_code_public_key, <<>>)

build_commitment_metadata(wallet, blob) ==
    LET decoded == from_blob_data(blob.data)
        account == decoded.action.account
    IN  IF ~decoded.ok THEN ProofOfFailureView(wallet)
        ELSE IF decoded.action.type = "UpdateInviteCodePublicKey"
        THEN ZkView(WalletCommitment(wallet), wallet.invite_code_public_key, <<>>)
        ELSE ZkView(WalletCommitment(wallet), wallet.invite_code_public_key,
                 << [proof |-> SmtMerkleProof(wallet.smt, compute_key(account)),
                     account_info |->
                        [SmtGet(wallet.smt, compute_key(account)) EXCEPT !.identity = account]] >>)

\* mutant: the merged view keeps the commitment of the second view
merge_commitment_metadata_next_commitment(initial, next) ==
    [next EXCEPT !.partial_data = @ \o initial.partial_data]

\* mutant: the entries of the first view come first
merge_commitment_metadata_initial_first(initial, next) ==
    [next EXCEPT !.partial_data = initial.partial_data \o @,
                 !.commitment = initial.commitment]

\* next_view.partial_data.extend(initial_view.partial_data);
\* next_view.commitment = initial_view.commitment
merge_commitment_metadata(initial, next) ==
    [next EXCEPT !.partial_data = @ \o initial.partial_data,
                 !.commitment = initial.commitment]

\* mutant: the entry is taken from the front of partial_data
PopPartialData_front(view) ==
    [entry |-> view.partial_data[1],
     view |-> [view EXCEPT !.partial_data = SubSeq(@, 2, Len(@))]]

\* mutant: execute reads the last entry and leaves it in the view
PopPartialData_keep_all(view) ==
    [entry |-> view.partial_data[Len(view.partial_data)], view |-> view]

\* self.partial_data.pop() of execute
PopPartialData(view) ==
    [entry |-> view.partial_data[Len(view.partial_data)],
     view |-> [view EXCEPT !.partial_data = SubSeq(@, 1, Len(@) - 1)]]

HyleOutput(success, initial_state, next_state, program_outputs) ==
    [success |-> success, initial_state_commitment |-> initial_state,
     next_state_commitment |-> next_state, program_outputs |-> program_outputs]

\* sdk::utils::as_hyle_output: a failed run result is reported with the initial
\* commitment as its next commitment
as_hyle_output(initial_state_commitment, next_state_commitment, res) ==
    IF res.ok
    THEN HyleOutput(TRUE, initial_state_commitment, next_state_commitment, res.msg)
    ELSE HyleOutput(FALSE, initial_state_commitment, initial_state_commitment, res.msg)

\* mutant: the host never finds the invite key set
HostInviteKeyAlreadySet_never(wallet) == FALSE

\* actual_handle, the one-shot check of UpdateInviteCodePublicKey
HostInviteKeyAlreadySet(wallet) ==
    wallet.invite_code_public_key # DEFAULT_INVITE_CODE_PUBLIC_KEY

HandleOk(wallet, output) == [ret |-> "Ok", wallet |-> wallet, output |-> output]

HandleErr(wallet, msg) ==
    [ret |-> "Err", wallet |-> wallet,
     output |-> HyleOutput(FALSE, WalletCommitment(wallet), WalletCommitment(wallet), msg)]

\* the match of actual_handle on the action, applied to the loaded record
ApplyAction(account_info, action, calldata) ==
    IF action.type = "RegisterIdentity"
    THEN handle_registration(account_info, action.account, action.nonce,
                             action.auth_method, calldata)
    ELSE IF action.type = "UseSessionKey"
    THEN handle_session_key_usage(account_info, action.account, action.nonce, calldata)
    ELSE handle_authenticated_action(account_info, action, calldata)

actual_handle(wallet, calldata) ==
    LET initial_state_commitment == WalletCommitment(wallet)
        parsed == parse_raw_calldata(calldata)
        action == parsed.action
        acc == action.account
        account_info == [SmtGet(wallet.smt, compute_key(acc)) EXCEPT !.identity = acc]
        invite == check_for_invite_code(acc, action.invite_code, calldata,
                                        wallet.invite_code_public_key)
        result == ApplyAction(account_info, action, calldata)
        written ==
            [wallet EXCEPT
                !.smt = SmtUpdate(@, compute_key(acc), result.account_info),
                !.salts = IF action.type = "RegisterIdentity"
                          THEN SaltsInsert(@, acc, action.salt) ELSE @]
    IN  IF ~parsed.ok THEN HandleErr(wallet, parsed.msg)
        ELSE IF action.type = "UpdateInviteCodePublicKey"
        THEN IF HostInviteKeyAlreadySet(wallet)
             THEN HandleErr(wallet, "Invite code public key already set")
             ELSE LET updated == [wallet EXCEPT !.invite_code_public_key =
                                                  action.invite_code_public_key]
                  IN  HandleOk(updated,
                               as_hyle_output(initial_state_commitment, WalletCommitment(updated),
                                              Ok("Updated public key", AccountInfoDefault)))
        ELSE IF action.type = "RegisterIdentity" /\ ~invite.ok
        THEN HandleErr(wallet, invite.msg)
        ELSE HandleOk(written,
                      as_hyle_output(initial_state_commitment, WalletCommitment(written), result))

\* ------------------------------------------------------------------ guest: WalletZkView
\* mutant: the guest never finds the invite key set
GuestInviteKeyAlreadySet_never(view) == FALSE

\* execute, the one-shot check of UpdateInviteCodePublicKey
GuestInviteKeyAlreadySet(view) ==
    view.invite_code_public_key # DEFAULT_INVITE_CODE_PUBLIC_KEY

GuestOk(view, msg) == [status |-> "Ok", view |-> view, msg |-> msg]

GuestErr(view, msg) == [status |-> "Err", view |-> view, msg |-> msg]

GuestPanic(view, msg) == [status |-> "Panic", view |-> view, msg |-> msg]

\* mutant: the guest trusts the declared commitment
CommitmentMismatch_never(view, root) == FALSE

\* execute, the comparison of the declared commitment with the derived one
CommitmentMismatch(view, root) ==
    view.commitment # get_state_commitment(root, view.invite_code_public_key)

\* mutant: a failed action also writes the commitment of the record as it left it
FinishRun_recomputing(rest, proof, account_key, res) ==
    LET new_root == ProofComputeRoot(proof, account_key, to_h256(res.account_info))
        committed == [rest EXCEPT !.commitment =
                         get_state_commitment(new_root, rest.invite_code_public_key)]
    IN  IF ~res.ok THEN GuestErr(committed, res.msg) ELSE GuestOk(committed, res.msg)

\* execute, from the result of the action on: an error leaves through `?` before the
\* commitment is written; a success writes the commitment of the new leaf
FinishRun(rest, proof, account_key, res) ==
    LET new_root == ProofComputeRoot(proof, account_key, to_h256(res.account_info))
    IN  IF ~res.ok THEN GuestErr(rest, res.msg)
        ELSE GuestOk([rest EXCEPT !.commitment =
                         get_state_commitment(new_root, rest.invite_code_public_key)],
                     res.msg)

\* mutant: the key of the view is replaced and its commitment left as declared
GuestUpdateInviteKey_keep_commitment(view, action) ==
    [view EXCEPT !.invite_code_public_key = action.invite_code_public_key]

\* execute, the assignments of UpdateInviteCodePublicKey: the new key, and the
\* commitment of the action's smt_root under the new key
GuestUpdateInviteKey(view, action) ==
    [view EXCEPT !.invite_code_public_key = action.invite_code_public_key,
                 !.commitment = get_state_commitment(action.smt_root,
                                    action.invite_code_public_key)]

execute(view, calldata) ==
    LET parsed == parse_raw_calldata(calldata)
        action == parsed.action
        popped == PopPartialData(view).entry
        rest == PopPartialData(view).view
        account_info == popped.account_info
        account_key == compute_key(account_info.identity)
        root == ProofComputeRoot(popped.proof, account_key, to_h256(account_info))
        verified == ProofVerify(popped.proof, root, account_key, to_h256(account_info))
        invite == check_for_invite_code(action.account, action.invite_code, calldata,
                                        view.invite_code_public_key)
        res == ApplyAction(account_info, action, calldata)
    IN  IF ~parsed.ok THEN GuestErr(view, parsed.msg)
        ELSE IF action.type = "UpdateInviteCodePublicKey"
        THEN IF GuestInviteKeyAlreadySet(view)
             THEN GuestErr(view, "Invite code public key already set")
             ELSE GuestOk(GuestUpdateInviteKey(view, action), "Updated public key")
        ELSE IF view.partial_data = <<>>
        THEN GuestPanic(view, "No partial data available for the contract state")
        ELSE IF CommitmentMismatch(view, root)
        THEN GuestPanic(rest, "State commitment mismatch")
        ELSE IF ~verified
        THEN GuestPanic(rest, "Proof verification failed for the contract state")
        ELSE IF action.type = "RegisterIdentity" /\ ~invite.ok
        THEN GuestErr(rest, invite.msg)
        ELSE FinishRun(rest, popped.proof, account_key, res)

\* ------------------------------------------------------------------ state
VARIABLES
    invite_code_public_key,  \* Wallet.invite_code_public_key
    smt,                     \* Wallet.smt
    salts,                   \* Wallet.salts
    pc,                      \* "idle": waiting for a blob; "returned": a blob was handled
    calldata,                \* the call data of the blob handled last
    metadata,                \* the view build_commitment_metadata returned before it was handled
    output,                  \* what Wallet::handle returned for it
    zk_view,                 \* the guest's view after WalletZkView::execute on metadata
    guest,                   \* how that execute ended
    prev,                    \* the wallet (and the history) before the blob was handled
    hist,                    \* history: where the invite key comes from, updates so far
    fn_args,                 \* the arguments of a function applied on its own
    fn_result                \* its result

walletVars ==
    <<invite_code_public_key, smt, salts, pc, calldata, metadata, output, zk_view, guest,
      prev, hist>>

fnVars == <<fn_args, fn_result>>

vars == <<walletVars, fnVars>>

Wallet == WalletOf(invite_code_public_key, smt, salts)

\* ------------------------------------------------------------------ inputs
Accounts == {"alice", "bob"}

SessionAccounts == {"alice"}

Nonces == 0..MaxNonce

InviteKeys == {DEFAULT_INVITE_CODE_PUBLIC_KEY, "key4", "key5"}

Constructors == {NoConstructor, WalletConstructor(Hex("hyli_pw"), "key4")}

TxIdentity(account) == <<account, "@wallet">>

PasswordAuth == AuthPassword(Hex("pw1"))

\* the side blobs carrying a password secret: none, the right one, a wrong one
SecretSides == {<<>>, <<RawBlob("check_secret", "pw1")>>, <<RawBlob("check_secret", "pw2")>>}

\* the invite blob of a registration: none, or signed by one of two keys
InviteSides(account) ==
    {<<>>} \cup
    {<<Secp256k1Blob(TxIdentity(account), InviteMsg("code1", account), k)>> :
        k \in {DEFAULT_INVITE_CODE_PUBLIC_KEY, "key4"}}

\* an earlier wallet blob of the same transaction: none, or a VerifyIdentity
PriorBlobs(account) == {<<>>, <<as_blob(VerifyIdentity(account, 0), "wallet")>>}

\* the secp256k1 blob of a session-key use: none, or signed by a session key
SessionSides(account, nonce) ==
    {<<>>} \cup
    {<<Secp256k1Blob(TxIdentity(account), NonceMsg(nonce), k)>> : k \in {"k1", "k2"}}

\* a transaction prior \o <<main>> \o sides, complete, executed at the blob main
TxCalldata(account, prior, main, sides, tx_ctx) ==
    Calldata(TxIdentity(account), IndexedBlobs(prior \o <<as_blob(main, "wallet")>> \o sides),
             Len(prior) + 1 + Len(sides), Len(prior), tx_ctx)

DefaultCtx == TxCtx(1, "L1")

\* the session keys AddSessionKey is called with: k1 never expires in the model's
\* time, k2 is already expired
SessionKeyInputs ==
    {SessionKey(Hex("k1"), 2, None, NoLane), SessionKey(Hex("k2"), 1, None, NoLane)}

RegisterCalldatas ==
    {TxCalldata(a, <<>>, RegisterIdentity(a, n, "salt1", auth, "code1"), inv \o sec, DefaultCtx) :
        a \in Accounts, n \in Nonces, auth \in {PasswordAuth, AuthUninitialized},
        inv \in UNION {InviteSides(b) : b \in Accounts}, sec \in SecretSides}

VerifyCalldatas ==
    {TxCalldata(a, prior, VerifyIdentity(a, n), sec, DefaultCtx) :
        a \in Accounts, n \in Nonces, prior \in UNION {PriorBlobs(b) : b \in Accounts},
        sec \in SecretSides}

AddSessionKeyCalldatas ==
    {TxCalldata(a, prior,
                AddSessionKey(a, sk.public_key, sk.expiration_date, sk.whitelist, sk.lane_id, n),
                sec, DefaultCtx) :
        a \in SessionAccounts, n \in Nonces, sk \in SessionKeyInputs,
        prior \in UNION {PriorBlobs(b) : b \in SessionAccounts}, sec \in SecretSides}

RemoveSessionKeyCalldatas ==
    {TxCalldata(a, prior, RemoveSessionKey(a, k, n), sec, DefaultCtx) :
        a \in SessionAccounts, n \in Nonces, k \in {Hex("k1"), Hex("k2")},
        prior \in UNION {PriorBlobs(b) : b \in SessionAccounts}, sec \in SecretSides}

UseSessionKeyCalldatas ==
    UNION {{TxCalldata(a, prior, UseSessionKey(a, n), sig, DefaultCtx) :
                prior \in PriorBlobs(a), sig \in SessionSides(a, n)} :
            a \in SessionAccounts, n \in Nonces}

UpdateInviteCalldatas(wallet) ==
    {TxCalldata("hyli", <<>>, UpdateInviteCodePublicKey(k, r), <<>>, DefaultCtx) :
        k \in InviteKeys, r \in {SmtRoot(wallet.smt), SmtRoot(SmtDefault)}}

\* a wallet blob whose bytes are no WalletAction, alone or before a side blob
UndecodableCalldatas ==
    {Calldata(TxIdentity("alice"), IndexedBlobs(<<RawBlob("wallet", "junk")>>), 1, 0, NoTxCtx),
     Calldata(TxIdentity("bob"),
              IndexedBlobs(<<RawBlob("wallet", "junk"), RawBlob("check_secret", "pw1")>>),
              2, 0, DefaultCtx)}

\* ------------------------------------------------------------------ specification
NoCalldata == Calldata(<<>>, <<>>, 0, 0, NoTxCtx)

NoView == ZkView(get_state_commitment(SmtRoot(SmtDefault), ""), "", <<>>)

NoOutput ==
    [ret |-> "None", output |-> HyleOutput(FALSE, NoView.commitment, NoView.commitment, "")]

NoGuest == [status |-> "None", msg |-> ""]

HistOf(wallet) ==
    [origin |-> IF wallet.invite_code_public_key # DEFAULT_INVITE_CODE_PUBLIC_KEY
                THEN "construct" ELSE "default",
     updates |-> 0]

NoArgs == [calldata |-> NoCalldata, expected_account |-> ""]

NoResult == [done |-> FALSE, ok |-> FALSE]

NoPrev == [wallet |-> construct_state(NoConstructor), hist |-> HistOf(construct_state(NoConstructor))]

Init ==
    /\ \E m \in Constructors :
        /\ invite_code_public_key = construct_state(m).invite_code_public_key
        /\ smt = construct_state(m).smt
        /\ salts = construct_state(m).salts
        /\ hist = HistOf(construct_state(m))
    /\ pc = "idle"
    /\ calldata = NoCalldata
    /\ metadata = NoView
    /\ output = NoOutput
    /\ zk_view = NoView
    /\ guest = NoGuest
    /\ prev = NoPrev
    /\ fn_args = NoArgs
    /\ fn_result = NoResult

\* The executor handles one blob: it builds the witness, lets the host handle the
\* call data, and the guest re-executes the call data on the witness.
HandleBlob(cd) ==
    LET blob == BlobsGet(cd, cd.index).blob
        view == build_commitment_metadata(Wallet, blob)
        h == actual_handle(Wallet, cd)
        g == execute(view, cd)
        update_done == /\ h.ret = "Ok"
                       /\ parse_raw_calldata(cd).action.type = "UpdateInviteCodePublicKey"
    IN  /\ pc = "idle"
        /\ pc' = "returned"
        /\ calldata' = cd
        /\ metadata' = view
        /\ invite_code_public_key' = h.wallet.invite_code_public_key
        /\ smt' = h.wallet.smt
        /\ salts' = h.wallet.salts
        /\ output' = [ret |-> h.ret, output |-> h.output]
        /\ zk_view' = g.view
        /\ guest' = [status |-> g.status, msg |-> g.msg]
        /\ prev' = [wallet |-> Wallet, hist |-> hist]
        /\ hist' = IF update_done
                   THEN [origin |-> IF h.wallet.invite_code_public_key
                                        # DEFAULT_INVITE_CODE_PUBLIC_KEY
                                    THEN "update" ELSE hist.origin,
                         updates |-> 1]
                   ELSE hist
        /\ UNCHANGED fnVars

Register == \E cd \in RegisterCalldatas : HandleBlob(cd)

Verify == \E cd \in VerifyCalldatas : HandleBlob(cd)

AddKey == \E cd \in AddSessionKeyCalldatas : HandleBlob(cd)

RemoveKey == \E cd \in RemoveSessionKeyCalldatas : HandleBlob(cd)

UseKey == \E cd \in UseSessionKeyCalldatas : HandleBlob(cd)

UpdateInviteKey == \E cd \in UpdateInviteCalldatas(Wallet) : HandleBlob(cd)

Undecodable == \E cd \in UndecodableCalldatas : HandleBlob(cd)

\* the caller takes the output; the executor waits for the next blob
Return ==
    /\ pc = "returned"
    /\ pc' = "idle"
    /\ calldata' = NoCalldata
    /\ metadata' = NoView
    /\ output' = NoOutput
    /\ zk_view' = NoView
    /\ guest' = NoGuest
    /\ prev' = NoPrev
    /\ UNCHANGED <<invite_code_public_key, smt, salts, hist>>
    /\ UNCHANGED fnVars

Next ==
    \/ Register
    \/ Verify
    \/ AddKey
    \/ RemoveKey
    \/ UseKey
    \/ UpdateInviteKey
    \/ Undecodable
    \/ Return

Spec == Init /\ [][Next]_vars

\* ------------------------------------------------------------------ what a handled blob shows
Returned == pc = "returned"

HandledAction == parse_raw_calldata(calldata).action

\* a decodable action naming an account was handled
NonAdministrative ==
    /\ Returned
    /\ parse_raw_calldata(calldata).ok
    /\ HandledAction.type # "UpdateInviteCodePublicKey"

Administrative ==
    /\ Returned
    /\ parse_raw_calldata(calldata).ok
    /\ HandledAction.type = "UpdateInviteCodePublicKey"

HostSucceeded == output.ret = "Ok" /\ output.output.success

HostFailed == ~HostSucceeded

\* the record stored for an identity
StoredRecord(wallet, identity) == SmtGet(wallet.smt, compute_key(identity))

PriorNonce == StoredRecord(prev.wallet, HandledAction.account).nonce

StoredNonce == StoredRecord(Wallet, HandledAction.account).nonce

Max(a, b) == IF a >= b THEN a ELSE b

\* some earlier blob of the transaction is a wallet blob proving the identity
ProvedByEarlierBlob(cd, identity) ==
    \E i \in DOMAIN cd.blobs :
        /\ cd.blobs[i].index < cd.index
        /\ cd.blobs[i].blob.contract_name = "wallet"
        /\ cd.blobs[i].blob.data.kind = "WalletAction"
        /\ cd.blobs[i].blob.data.action.type \in {"VerifyIdentity", "RegisterIdentity"}
        /\ cd.blobs[i].blob.data.action.account = identity

\* ------------------------------------------------------------------ claims

\* C1: for every non-administrative action the host returns an output for, succeeding
\* or failing, the guest run on the witness built before the action does not abort and
\* ends with the commitment the output names as next_state_commitment.
C1_HostGuestEquivalence ==
    (NonAdministrative /\ output.ret = "Ok") =>
        /\ guest.status \in {"Ok", "Err"}
        /\ zk_view.commitment = output.output.next_state_commitment

C1_Witness ==
    /\ NonAdministrative
    /\ HostSucceeded
    /\ output.output.next_state_commitment # output.output.initial_state_commitment
    /\ zk_view.commitment = output.output.next_state_commitment
    /\ zk_view.commitment # metadata.commitment

\* C2: a failing non-administrative action leaves the stored record of the named
\* account and the host's state commitment as they were before the call.
C2_FailingTransitionKeepsTree ==
    (NonAdministrative /\ HostFailed) =>
        /\ StoredRecord(Wallet, HandledAction.account)
              = StoredRecord(prev.wallet, HandledAction.account)
        /\ WalletCommitment(Wallet) = WalletCommitment(prev.wallet)

\* C3: every transition error of a non-administrative action is returned as
\* Ok(HyleOutput) with success = false; handle returns Err for none of them.
C3_TransitionErrorsAreOutputs ==
    NonAdministrative => output.ret = "Ok"

\* C4 as claimed: once one UpdateInviteCodePublicKey has succeeded, every later one
\* fails on the host and on the guest and leaves the commitment unchanged.
C4_AnyUpdateIsOneShot ==
    (Administrative /\ prev.hist.updates > 0) =>
        /\ HostFailed
        /\ WalletCommitment(Wallet) = WalletCommitment(prev.wallet)
        /\ guest.status = "Err"
        /\ zk_view.commitment = metadata.commitment

\* C4 amended: once an UpdateInviteCodePublicKey has set a key other than the default
\* key, every later one fails on the host and on the guest, whatever its key argument,
\* and leaves the commitment unchanged.
C4_InviteKeyOneShot ==
    (Administrative /\ prev.hist.origin = "update") =>
        /\ HostFailed
        /\ WalletCommitment(Wallet) = WalletCommitment(prev.wallet)
        /\ guest.status = "Err"
        /\ zk_view.commitment = metadata.commitment

C4_Witness ==
    /\ Administrative
    /\ prev.hist.origin = "update"
    /\ HandledAction.invite_code_public_key # prev.wallet.invite_code_public_key
    /\ HandledAction.invite_code_public_key # DEFAULT_INVITE_CODE_PUBLIC_KEY
    /\ HostFailed
    /\ guest.status = "Err"

\* C5: a step never changes an invite key that differs from the default key, and the
\* key changes only by a successful UpdateInviteCodePublicKey, to the key it carries
\* (the constructor payload sets it before the first step).
C5_Step ==
    /\ invite_code_public_key # DEFAULT_INVITE_CODE_PUBLIC_KEY
          => invite_code_public_key' = invite_code_public_key
    /\ invite_code_public_key' # invite_code_public_key
          => /\ Administrative'
             /\ output'.ret = "Ok"
             /\ invite_code_public_key' = HandledAction'.invite_code_public_key

C5_InviteKeyImmutable == [][C5_Step]_vars

C5_Witness ==
    /\ Administrative
    /\ prev.hist.origin = "update"
    /\ HandledAction.invite_code_public_key # invite_code_public_key
    /\ invite_code_public_key = prev.wallet.invite_code_public_key

\* the equal-nonce rule: the action carries the record's nonce and an earlier blob
\* of the transaction proves the identity
EqualNonceRule ==
    /\ HandledAction.nonce = PriorNonce
    /\ ProvedByEarlierBlob(calldata, HandledAction.account)

NonceNeverDecreases ==
    \A a \in Identities : StoredRecord(Wallet, a).nonce >= StoredRecord(prev.wallet, a).nonce

\* C6 as claimed: after a successful action carrying nonce n on a record of nonce p
\* the stored nonce is max(p, n), no nonce decreased, and the stored nonce is greater
\* than p unless the equal-nonce rule applied.
C6_NonceStrictlyGrows ==
    (NonAdministrative /\ HostSucceeded) =>
        /\ StoredNonce = Max(PriorNonce, HandledAction.nonce)
        /\ NonceNeverDecreases
        /\ StoredNonce > PriorNonce \/ EqualNonceRule

\* C6 amended: as claimed, but the stored nonce may also equal p after a
\* RegisterIdentity that carries nonce 0 (a fresh record has nonce 0).
C6_NonceMonotonic ==
    (NonAdministrative /\ HostSucceeded) =>
        /\ StoredNonce = Max(PriorNonce, HandledAction.nonce)
        /\ NonceNeverDecreases
        /\ \/ StoredNonce > PriorNonce
           \/ EqualNonceRule
           \/ HandledAction.type = "RegisterIdentity" /\ HandledAction.nonce = 0

C6_Witness ==
    /\ NonAdministrative
    /\ HostSucceeded
    /\ HandledAction.type = "AddSessionKey"
    /\ PriorNonce > 0
    /\ EqualNonceRule
    /\ StoredNonce = PriorNonce

\* the call reached verify_and_update_nonce: what is checked before it passed
NonceCheckReached ==
    /\ NonAdministrative
    /\ \/ /\ HandledAction.type \in {"VerifyIdentity", "AddSessionKey", "RemoveSessionKey"}
          /\ AuthVerify(StoredRecord(prev.wallet, HandledAction.account).auth_method,
                        calldata, HandledAction.nonce).ok
       \/ /\ HandledAction.type = "UseSessionKey"
          /\ CheckSecp256k1Expect(calldata, NonceMsg(HandledAction.nonce)).ok

NonceRejected ==
    output.output.program_outputs \in
        {"Invalid nonce", "No action that proves identity found in previous blobs"}

NonceAcceptable ==
    \/ HandledAction.nonce > PriorNonce
    \/ HandledAction.nonce = PriorNonce /\ ProvedByEarlierBlob(calldata, HandledAction.account)

\* C7: a call that reaches the nonce check is rejected there exactly when its nonce
\* is smaller than the record's, or equal to it with no earlier VerifyIdentity or
\* RegisterIdentity blob naming the identity; a VerifyIdentity that authenticates
\* succeeds exactly when its nonce is accepted, so a replay fails.
C7_NonceRule ==
    NonceCheckReached =>
        /\ NonceRejected <=> ~NonceAcceptable
        /\ HandledAction.type = "VerifyIdentity" => (HostSucceeded <=> NonceAcceptable)

C7_Witness ==
    /\ NonceCheckReached
    /\ HandledAction.type = "VerifyIdentity"
    /\ HandledAction.nonce = PriorNonce
    /\ PriorNonce > 0
    /\ ~ProvedByEarlierBlob(calldata, HandledAction.account)
    /\ output.ret = "Ok"
    /\ ~output.output.success

\* ------------------------------------------------------------------ the prior-blob scan on its own
ScanAccounts == {"alice", "bob"}

ScanPool ==
    {as_blob(VerifyIdentity("alice", 1), "wallet"),
     as_blob(RegisterIdentity("alice", 1, "salt1", PasswordAuth, "code1"), "wallet"),
     as_blob(VerifyIdentity("bob", 1), "wallet"),
     as_blob(AddSessionKey("alice", Hex("k1"), 2, None, NoLane, 1), "wallet"),
     as_blob(VerifyIdentity("alice", 1), "wallet2"),
     RawBlob("wallet", "junk"),
     RawBlob("check_secret", "pw1")}

ScanBlobLists == UNION {[1..n -> ScanPool] : n \in 0..MaxScanBlobs}

\* the blobs of a call data, numbered from first (a call data may lack the first
\* blobs of its transaction)
IndexedFrom(first, blobs) ==
    [i \in 1..Len(blobs) |-> [index |-> first + i - 1, blob |-> blobs[i]]]

ScanInputs ==
    {[calldata |-> Calldata(TxIdentity(a), IndexedFrom(first, blobs), first + Len(blobs),
                            index, NoTxCtx),
      expected_account |-> a] :
        a \in ScanAccounts, first \in 0..1, blobs \in ScanBlobLists, index \in 0..MaxScanBlobs}

InitScan ==
    /\ invite_code_public_key = construct_state(NoConstructor).invite_code_public_key
    /\ smt = construct_state(NoConstructor).smt
    /\ salts = construct_state(NoConstructor).salts
    /\ hist = HistOf(construct_state(NoConstructor))
    /\ pc = "idle"
    /\ calldata = NoCalldata
    /\ metadata = NoView
    /\ output = NoOutput
    /\ zk_view = NoView
    /\ guest = NoGuest
    /\ prev = NoPrev
    /\ fn_args \in ScanInputs
    /\ fn_result = NoResult

Scan ==
    /\ ~fn_result.done
    /\ fn_result' =
          [done |-> TRUE,
           ok |-> check_verify_identity_in_previous_blobs(fn_args.calldata,
                                                          fn_args.expected_account)]
    /\ UNCHANGED <<fn_args, walletVars>>

NextScan == Scan

SpecScan == InitScan /\ [][NextScan]_vars

\* C8: the scan succeeds exactly when a blob whose index is smaller than the current
\* index is a blob of contract wallet that decodes to a VerifyIdentity or
\* RegisterIdentity naming the expected account.
C8_PriorBlobScan ==
    fn_result.done =>
        (fn_result.ok <=> ProvedByEarlierBlob(fn_args.calldata, fn_args.expected_account))

\* the scan failed although the blob at the current index, and a blob of another
\* contract before it, prove the identity
C8_Witness ==
    /\ fn_result.done
    /\ ~fn_result.ok
    /\ \E i, j \in DOMAIN fn_args.calldata.blobs :
          /\ fn_args.calldata.blobs[i].index = fn_args.calldata.index
          /\ fn_args.calldata.blobs[i].blob
                = as_blob(VerifyIdentity(fn_args.expected_account, 1), "wallet")
          /\ fn_args.calldata.blobs[j].index < fn_args.calldata.index
          /\ fn_args.calldata.blobs[j].blob
                = as_blob(VerifyIdentity(fn_args.expected_account, 1), "wallet2")

\* ------------------------------------------------------------------ session keys
\* the session keys of this specification: k1 in every shape, k2 in one
SessionKeyShapes ==
    {SessionKey(Hex("k1"), e, w, l) :
        e \in 1..2, w \in {None, Some({}), Some({"tokenA"})}, l \in {NoLane, "L1"}}
    \cup {SessionKey(Hex("k2"), 2, Some({"tokenA"}), NoLane)}

SessionRegisterCalldatas ==
    {TxCalldata("alice", <<>>, RegisterIdentity("alice", 0, "salt1", PasswordAuth, "code1"),
                <<Secp256k1Blob(TxIdentity("alice"), InviteMsg("code1", "alice"),
                                DEFAULT_INVITE_CODE_PUBLIC_KEY),
                  RawBlob("check_secret", "pw1")>>, DefaultCtx)}

SessionAddCalldatas ==
    {TxCalldata("alice", <<>>,
                AddSessionKey("alice", sk.public_key, sk.expiration_date, sk.whitelist,
                              sk.lane_id, n),
                <<RawBlob("check_secret", "pw1")>>, DefaultCtx) :
        sk \in SessionKeyShapes, n \in Nonces}

\* the other blobs of a transaction that uses a session key
SessionExtras ==
    {<<>>, <<RawBlob("tokenA", "transfer")>>, <<RawBlob("tokenB", "transfer")>>,
     <<RawBlob("tokenA", "transfer"), RawBlob("tokenB", "transfer")>>}

SessionCtxs == {NoTxCtx, TxCtx(1, "L1"), TxCtx(1, "L2"), TxCtx(2, "L1")}

\* a UseSessionKey call: the call data holds the blobs prior, the wallet blob, sig
\* and extras; the transaction has `omitted` more blobs than the call data
SessionUseCalldatas ==
    UNION {{Calldata(TxIdentity("alice"),
                     IndexedBlobs(prior \o <<as_blob(UseSessionKey("alice", n), "wallet")>>
                                   \o sig \o extras),
                     Len(prior) + 1 + Len(sig) + Len(extras) + omitted, Len(prior), ctx) :
                prior \in PriorBlobs("alice"), sig \in SessionSides("alice", n),
                extras \in SessionExtras, ctx \in SessionCtxs, omitted \in 0..1} :
            n \in Nonces}

SessionRegister == \E cd \in SessionRegisterCalldatas : HandleBlob(cd)

SessionAddKey == \E cd \in SessionAddCalldatas : HandleBlob(cd)

SessionUseKey == \E cd \in SessionUseCalldatas : HandleBlob(cd)

NextSession ==
    \/ SessionRegister
    \/ SessionAddKey
    \/ SessionUseKey
    \/ Return

SpecSession == Init /\ [][NextSession]_vars

\* the session keys a UseSessionKey call is made with: those of the account whose
\* public key signed the secp256k1 blob of the call data
UsedSessionKeys ==
    LET record == StoredRecord(prev.wallet, HandledAction.account)
    IN  {record.session_keys[i] : i \in
            {i \in DOMAIN record.session_keys :
                \E j \in DOMAIN calldata.blobs :
                    /\ calldata.blobs[j].blob.contract_name = "secp256k1"
                    /\ calldata.blobs[j].blob.data.kind = "Secp256k1Blob"
                    /\ record.session_keys[i].public_key
                          = Hex(calldata.blobs[j].blob.data.secp.public_key)}}

UseSessionKeyHandled == NonAdministrative /\ HandledAction.type = "UseSessionKey"

\* a blob other than the one executed and than the secp256k1 blobs is of a contract
\* outside S
BlobOutside(S) ==
    \E i \in DOMAIN calldata.blobs :
        /\ calldata.blobs[i].index # calldata.index
        /\ calldata.blobs[i].blob.contract_name # "secp256k1"
        /\ calldata.blobs[i].blob.contract_name \notin S

\* C9: a UseSessionKey made with a session key of whitelist Some(S) fails, on the host
\* and on the guest, when a blob of the transaction other than the executed one and
\* than the secp256k1 blobs is of a contract outside S.
C9_WhitelistSoundness ==
    UseSessionKeyHandled =>
        \A sk \in UsedSessionKeys :
            (sk.whitelist.some /\ BlobOutside(sk.whitelist.set)) =>
                HostFailed /\ guest.status # "Ok"

\* the key is valid on every other count: only the whitelist rejects the call
C9_Witness ==
    /\ UseSessionKeyHandled
    /\ \E sk \in UsedSessionKeys :
          /\ sk.whitelist = Some({"tokenA"})
          /\ BlobOutside(sk.whitelist.set)
          /\ LaneAllowed(sk, calldata.tx_ctx)
          /\ NotExpired(sk, calldata.tx_ctx)
    /\ calldata.tx_ctx.present
    /\ Len(calldata.blobs) = calldata.tx_blob_count
    /\ HandledAction.nonce > PriorNonce
    /\ output.output.program_outputs = "Blob not whitelisted"

\* C10: a UseSessionKey whose call data does not hold as many blobs as the
\* transaction has fails, whatever the session key allows.
C10_PartialCalldataRejected ==
    (UseSessionKeyHandled /\ Len(calldata.blobs) # calldata.tx_blob_count) =>
        HostFailed /\ guest.status # "Ok"

\* every blob the call data holds is whitelisted and the key is valid on every count
C10_Witness ==
    /\ UseSessionKeyHandled
    /\ Len(calldata.blobs) # calldata.tx_blob_count
    /\ \E sk \in UsedSessionKeys :
          /\ sk.whitelist = Some({"tokenA"})
          /\ ~BlobOutside(sk.whitelist.set)
          /\ Len(calldata.blobs) > 2
          /\ LaneAllowed(sk, calldata.tx_ctx)
          /\ NotExpired(sk, calldata.tx_ctx)
    /\ calldata.tx_ctx.present
    /\ HandledAction.nonce > PriorNonce
    /\ output.output.program_outputs
          = "All blobs should be in the Calldata for whitelist validation"

\* the call reached use_session_key with a key of the account: the nonce signature
\* and the nonce were accepted
UseSessionKeyReached ==
    /\ UseSessionKeyHandled
    /\ CheckSecp256k1Expect(calldata, NonceMsg(HandledAction.nonce)).ok
    /\ NonceAcceptable
    /\ UsedSessionKeys # {}

\* the checks of use_session_key that come before the expiration check pass
ExpirationCheckReached(sk) ==
    /\ UseSessionKeyReached
    /\ calldata.tx_ctx.present
    /\ Len(calldata.blobs) = calldata.tx_blob_count
    /\ sk.whitelist.some => ~BlobOutside(sk.whitelist.set)
    /\ sk.lane_id # NoLane => sk.lane_id = calldata.tx_ctx.lane_id

\* C11: a UseSessionKey succeeds only with a transaction context and a session key
\* whose expiration_date is greater than the transaction timestamp; when every other
\* check passes and the expiration_date is at most the timestamp, host and guest
\* fail with "Session key expired".
C11_ExpirationStrict ==
    UseSessionKeyHandled =>
        /\ HostSucceeded =>
              /\ calldata.tx_ctx.present
              /\ \A sk \in UsedSessionKeys :
                    sk.expiration_date > calldata.tx_ctx.timestamp
        /\ \A sk \in UsedSessionKeys :
              (ExpirationCheckReached(sk)
                    /\ sk.expiration_date <= calldata.tx_ctx.timestamp) =>
                 /\ HostFailed
                 /\ output.ret = "Ok"
                 /\ output.output.program_outputs = "Session key expired"
                 /\ guest.status = "Err"
                 /\ guest.msg = "Session key expired"

\* the key expires exactly at the transaction timestamp
C11_Witness ==
    /\ \E sk \in UsedSessionKeys :
          /\ ExpirationCheckReached(sk)
          /\ sk.expiration_date = calldata.tx_ctx.timestamp
    /\ output.output.program_outputs = "Session key expired"

\* C12: a UseSessionKey made with a session key pinned to a lane fails when the
\* transaction is on another lane; a key with no lane that passes the other checks
\* succeeds on whatever lane the transaction is.
C12_LanePinning ==
    UseSessionKeyHandled =>
        \A sk \in UsedSessionKeys :
            /\ (sk.lane_id # NoLane /\ calldata.tx_ctx.lane_id # sk.lane_id) =>
                  HostFailed /\ guest.status # "Ok"
            /\ (sk.lane_id = NoLane /\ ExpirationCheckReached(sk)
                    /\ sk.expiration_date > calldata.tx_ctx.timestamp) =>
                  HostSucceeded /\ guest.status = "Ok"

\* only the lane rejects the call
C12_Witness ==
    /\ \E sk \in UsedSessionKeys :
          /\ UseSessionKeyReached
          /\ sk.lane_id = "L1"
          /\ calldata.tx_ctx.present
          /\ calldata.tx_ctx.lane_id = "L2"
          /\ Len(calldata.blobs) = calldata.tx_blob_count
          /\ sk.whitelist.some => ~BlobOutside(sk.whitelist.set)
          /\ sk.expiration_date > calldata.tx_ctx.timestamp
    /\ output.output.program_outputs = "Session key not valid for this lane"

\* a key with no lane is used on lane L2
C12_WitnessAnyLane ==
    /\ UseSessionKeyHandled
    /\ \E sk \in UsedSessionKeys : sk.lane_id = NoLane
    /\ calldata.tx_ctx.lane_id = "L2"
    /\ HostSucceeded

\* ------------------------------------------------------------------ session keys of a record
PublicKeys(record) == {record.session_keys[i].public_key : i \in DOMAIN record.session_keys}

NoDuplicateSessionKeys(record) ==
    \A i, j \in DOMAIN record.session_keys :
        record.session_keys[i].public_key = record.session_keys[j].public_key => i = j

\* the call reached add_session_key: authentication and nonce were accepted
AddSessionKeyReached ==
    /\ NonceCheckReached
    /\ HandledAction.type = "AddSessionKey"
    /\ NonceAcceptable

\* C13: no stored record holds two session keys with the same public key; an
\* AddSessionKey that reaches add_session_key with a public key of the record fails with
\* "Session key already exists" and leaves the keys as they were; a successful
\* AddSessionKey leaves the former keys followed by the one new key.
C13_SessionKeysUnique ==
    /\ \A a \in Identities : NoDuplicateSessionKeys(StoredRecord(Wallet, a))
    /\ (AddSessionKeyReached
            /\ HandledAction.key \in PublicKeys(StoredRecord(prev.wallet, HandledAction.account))) =>
          /\ HostFailed
          /\ output.output.program_outputs = "Session key already exists"
          /\ guest.msg = "Session key already exists"
          /\ StoredRecord(Wallet, HandledAction.account).session_keys
                = StoredRecord(prev.wallet, HandledAction.account).session_keys
    /\ (NonAdministrative /\ HandledAction.type = "AddSessionKey" /\ HostSucceeded) =>
          StoredRecord(Wallet, HandledAction.account).session_keys
            = Append(StoredRecord(prev.wallet, HandledAction.account).session_keys,
                     SessionKey(HandledAction.key, HandledAction.expiration_date,
                                HandledAction.whitelist, HandledAction.lane_id))

\* a key is added again to a record that holds it and another key
C13_Witness ==
    /\ AddSessionKeyReached
    /\ HandledAction.key \in PublicKeys(StoredRecord(prev.wallet, HandledAction.account))
    /\ Len(StoredRecord(prev.wallet, HandledAction.account).session_keys) = 2
    /\ output.output.program_outputs = "Session key already exists"

\* ------------------------------------------------------------------ registration
\* alice registers with one of two passwords, with or without the invite blob and
\* the secret, and is then the target of every other action
OtherPasswordAuth == AuthPassword(Hex("pw2"))

RegistrationCalldatas ==
    {TxCalldata("alice", <<>>, RegisterIdentity("alice", n, "salt1", auth, "code1"),
                inv \o sec, DefaultCtx) :
        n \in Nonces, auth \in {PasswordAuth, OtherPasswordAuth},
        inv \in InviteSides("alice"), sec \in SecretSides}

RegisterAgain == \E cd \in RegistrationCalldatas : HandleBlob(cd)

NextRegistration ==
    \/ RegisterAgain
    \/ Verify
    \/ AddKey
    \/ RemoveKey
    \/ UseKey
    \/ Return

SpecRegistration == Init /\ [][NextRegistration]_vars

Registered(wallet, identity) ==
    StoredRecord(wallet, identity).auth_method # AuthUninitialized

\* C14: a RegisterIdentity naming a registered account fails on host and guest, and
\* no handled blob changes the auth_method of a registered account.
C14_RegistrationOnce ==
    /\ (NonAdministrative /\ HandledAction.type = "RegisterIdentity"
            /\ Registered(prev.wallet, HandledAction.account)) =>
          HostFailed /\ guest.status # "Ok"
    /\ \A a \in Identities :
          Registered(prev.wallet, a) =>
              StoredRecord(Wallet, a).auth_method = StoredRecord(prev.wallet, a).auth_method

\* a registration that would pass on a fresh record (invite accepted, secret right)
\* names an account registered with another password
C14_Witness ==
    /\ NonAdministrative
    /\ HandledAction.type = "RegisterIdentity"
    /\ Registered(prev.wallet, HandledAction.account)
    /\ HandledAction.auth_method
          # StoredRecord(prev.wallet, HandledAction.account).auth_method
    /\ AuthVerify(HandledAction.auth_method, calldata, HandledAction.nonce).ok
    /\ output.ret = "Ok"
    /\ output.output.program_outputs = "Identity already registered"
    /\ StoredRecord(Wallet, HandledAction.account).session_keys # <<>>

\* ------------------------------------------------------------------ the guest on supplied views
\* the record of a witness, rewritten by whoever supplies the view
ForgedRecords(account_info) ==
    {[account_info EXCEPT !.auth_method = OtherPasswordAuth],
     [account_info EXCEPT !.nonce = 0],
     [account_info EXCEPT !.session_keys = <<SessionKey(Hex("k1"), 2, None, NoLane)>>]}

\* the commitment a view has to declare for execute to accept its last entry
DerivedCommitment(view) ==
    LET popped == view.partial_data[Len(view.partial_data)]
    IN  get_state_commitment(
            ProofComputeRoot(popped.proof, compute_key(popped.account_info.identity),
                             to_h256(popped.account_info)),
            view.invite_code_public_key)

\* the views execute may be given for a blob: the one the host builds, and that view
\* with another commitment, another invite key, another record (with the honest
\* commitment or with the commitment of the forged record) or the proof of another key
SuppliedViews(wallet, blob) ==
    LET honest == build_commitment_metadata(wallet, blob)
        entry == honest.partial_data[1]
        forged(r) == [honest EXCEPT !.partial_data = <<[entry EXCEPT !.account_info = r]>>]
    IN  IF honest.partial_data = <<>> THEN {honest}
        ELSE {honest,
              [honest EXCEPT !.commitment = WalletCommitment(construct_state(NoConstructor))],
              [honest EXCEPT !.invite_code_public_key = "key5"],
              [honest EXCEPT !.partial_data =
                  <<[entry EXCEPT !.proof = SmtMerkleProof(wallet.smt, compute_key("hyli"))]>>]}
             \cup {forged(r) : r \in ForgedRecords(entry.account_info)}
             \cup {[forged(r) EXCEPT !.commitment = DerivedCommitment(forged(r))] :
                      r \in ForgedRecords(entry.account_info)}

\* The guest executes a call data on a supplied view; the host handles nothing.
ExecuteOnView(cd, view) ==
    LET g == execute(view, cd)
    IN  /\ pc = "idle"
        /\ pc' = "returned"
        /\ calldata' = cd
        /\ metadata' = view
        /\ zk_view' = g.view
        /\ guest' = [status |-> g.status, msg |-> g.msg]
        /\ prev' = [wallet |-> Wallet, hist |-> hist]
        /\ output' = NoOutput
        /\ UNCHANGED <<invite_code_public_key, smt, salts, hist>>
        /\ UNCHANGED fnVars

GuestExecute ==
    \E cd \in VerifyCalldatas :
        \E view \in SuppliedViews(Wallet, BlobsGet(cd, cd.index).blob) :
            ExecuteOnView(cd, view)

\* the views execute may be given for an UpdateInviteCodePublicKey: the one the host
\* builds, and that view claiming another invite key
SuppliedUpdateViews(wallet, blob) ==
    {[build_commitment_metadata(wallet, blob) EXCEPT !.invite_code_public_key = k] :
        k \in InviteKeys}

GuestExecuteUpdate ==
    \E cd \in UpdateInviteCalldatas(Wallet) :
        \E view \in SuppliedUpdateViews(Wallet, BlobsGet(cd, cd.index).blob) :
            ExecuteOnView(cd, view)

NextGuest ==
    \/ SessionRegister
    \/ Verify
    \/ GuestExecute
    \/ GuestExecuteUpdate
    \/ Return

SpecGuest == Init /\ [][NextGuest]_vars

\* execute popped an entry of the view it was given
GuestPopped == NonAdministrative /\ metadata.partial_data # <<>>

\* C15: when the commitment derived from the popped proof, the popped record and the
\* view's invite key differs from the commitment the view declares, execute of a
\* non-administrative action panics and the view keeps its declared commitment.
C15_MismatchAborts ==
    (GuestPopped /\ DerivedCommitment(metadata) # metadata.commitment) =>
        /\ guest.status = "Panic"
        /\ zk_view.commitment = metadata.commitment

\* the view holds a record with another password than the stored one, and the call
\* data carries the secret of that password
C15_Witness ==
    /\ GuestPopped
    /\ DerivedCommitment(metadata) # metadata.commitment
    /\ metadata.commitment = WalletCommitment(Wallet)
    /\ Registered(Wallet, HandledAction.account)
    /\ metadata.partial_data[1].account_info.auth_method = OtherPasswordAuth
    /\ AuthVerify(OtherPasswordAuth, calldata, HandledAction.nonce).ok
    /\ guest.status = "Panic"

\* ------------------------------------------------------------------ a failing action in the guest
\* the action execute applies to the popped record fails: the invite check of a
\* registration, or the handler of the action
GuestActionFails ==
    /\ GuestPopped
    /\ LET popped == metadata.partial_data[Len(metadata.partial_data)]
       IN  \/ /\ HandledAction.type = "RegisterIdentity"
              /\ ~check_for_invite_code(HandledAction.account, HandledAction.invite_code,
                                         calldata, metadata.invite_code_public_key).ok
           \/ ~ApplyAction(popped.account_info, HandledAction, calldata).ok

\* C16: when the action fails, execute on the host's view ends with an error result (it
\* does not panic) and the view's commitment is the commitment of the leaf as the view
\* held it, which is the commitment the view declared.
C16_GuestFailureKeepsCommitment ==
    GuestActionFails =>
        /\ guest.status = "Err"
        /\ zk_view.commitment = DerivedCommitment(metadata)
        /\ zk_view.commitment = metadata.commitment

\* the handler raised the nonce of the record before it failed
C16_Witness ==
    /\ GuestActionFails
    /\ guest.status = "Err"
    /\ guest.msg = "Session key not found"
    /\ LET popped == metadata.partial_data[Len(metadata.partial_data)]
       IN  ApplyAction(popped.account_info, HandledAction, calldata).account_info.nonce
              > popped.account_info.nonce

\* ------------------------------------------------------------------ merging witnesses
\* the witnesses the host builds for one blob: of two wallets, with an entry (an
\* account action) or without (an UpdateInviteCodePublicKey)
WitnessPool ==
    LET w0 == construct_state(NoConstructor)
        w1 == construct_state(WalletConstructor(Hex("hyli_pw"), "key4"))
    IN  {build_commitment_metadata(w0, as_blob(VerifyIdentity("alice", 1), "wallet")),
         build_commitment_metadata(w0, as_blob(UpdateInviteCodePublicKey("key4",
                                                   SmtRoot(w0.smt)), "wallet")),
         build_commitment_metadata(w1, as_blob(VerifyIdentity("alice", 1), "wallet")),
         build_commitment_metadata(w1, as_blob(VerifyIdentity("bob", 1), "wallet")),
         build_commitment_metadata(w1, as_blob(VerifyIdentity("hyli", 1), "wallet"))}

WitnessLists == UNION {[1..n -> WitnessPool] : n \in 1..MaxWitnesses}

NoMerge == [done |-> FALSE, initial |-> NoView, next |-> NoView, out |-> NoView]

InitMerge ==
    /\ invite_code_public_key = construct_state(NoConstructor).invite_code_public_key
    /\ smt = construct_state(NoConstructor).smt
    /\ salts = construct_state(NoConstructor).salts
    /\ hist = HistOf(construct_state(NoConstructor))
    /\ pc = "idle"
    /\ calldata = NoCalldata
    /\ metadata = NoView
    /\ output = NoOutput
    /\ zk_view = NoView
    /\ guest = NoGuest
    /\ prev = NoPrev
    /\ \E ws \in WitnessLists : fn_args = [witnesses |-> ws]
    /\ fn_result = [views |-> fn_args.witnesses, leftmost |-> TRUE, merged |-> NoMerge,
                    popped |-> <<>>]

\* two neighbouring views are merged into one
MergeAdjacent ==
    \E i \in 1..(Len(fn_result.views) - 1) :
        LET a == fn_result.views[i]
            b == fn_result.views[i + 1]
            out == merge_commitment_metadata(a, b)
        IN  /\ fn_result.popped = <<>>
            /\ fn_result' =
                  [fn_result EXCEPT
                      !.views = SubSeq(@, 1, i - 1) \o <<out>> \o SubSeq(@, i + 2, Len(@)),
                      !.leftmost = @ /\ i = 1,
                      !.merged = [done |-> TRUE, initial |-> a, next |-> b, out |-> out]]
            /\ UNCHANGED <<fn_args, walletVars>>

\* the guest pops an entry of the one merged view
PopEntry ==
    /\ Len(fn_result.views) = 1
    /\ fn_result.views[1].partial_data # <<>>
    /\ fn_result' =
          [fn_result EXCEPT
              !.views = <<PopPartialData(fn_result.views[1]).view>>,
              !.popped = Append(@, PopPartialData(fn_result.views[1]).entry)]
    /\ UNCHANGED <<fn_args, walletVars>>

NextMerge ==
    \/ MergeAdjacent
    \/ PopEntry

SpecMerge == InitMerge /\ [][NextMerge]_vars

\* C17: the view merge_commitment_metadata(a, b) returns has the commitment of a.
C17_MergeKeepsFirstCommitment ==
    fn_result.merged.done =>
        fn_result.merged.out.commitment = fn_result.merged.initial.commitment

C17_Witness ==
    /\ fn_result.merged.done
    /\ fn_result.merged.initial.commitment # fn_result.merged.next.commitment
    /\ fn_result.merged.out.commitment = fn_result.merged.initial.commitment

\* C18 as claimed: the partial_data of merge_commitment_metadata(a, b) is the entries
\* of a followed by the entries of b.
C18_MergeAppendsSecond ==
    fn_result.merged.done =>
        fn_result.merged.out.partial_data
            = fn_result.merged.initial.partial_data \o fn_result.merged.next.partial_data

\* C18 amended: the partial_data of merge_commitment_metadata(a, b) is the entries of
\* b, in their order, followed by the entries of a, in their order.
C18_MergePrependsSecond ==
    fn_result.merged.done =>
        fn_result.merged.out.partial_data
            = fn_result.merged.next.partial_data \o fn_result.merged.initial.partial_data

\* both views hold two entries and the two orders differ
C18_Witness ==
    /\ fn_result.merged.done
    /\ Len(fn_result.merged.initial.partial_data) = 2
    /\ Len(fn_result.merged.next.partial_data) = 2
    /\ fn_result.merged.initial.partial_data[1] # fn_result.merged.initial.partial_data[2]
    /\ fn_result.merged.next.partial_data[1] # fn_result.merged.next.partial_data[2]
    /\ fn_result.merged.initial.partial_data \o fn_result.merged.next.partial_data
          # fn_result.merged.next.partial_data \o fn_result.merged.initial.partial_data

RECURSIVE EntriesInBlobOrder(_)
EntriesInBlobOrder(witnesses) ==
    IF witnesses = <<>> THEN <<>>
    ELSE witnesses[1].partial_data \o EntriesInBlobOrder(Tail(witnesses))

RECURSIVE Reverse(_)
Reverse(seq) == IF seq = <<>> THEN <<>> ELSE Reverse(Tail(seq)) \o <<seq[1]>>

\* C19: after the per-blob witnesses have been merged from left to right into one
\* view, the entries popped so far followed by the entries left, last first, are the
\* entries of the witnesses in blob order.
C19_PopsInBlobOrder ==
    (fn_result.leftmost /\ Len(fn_result.views) = 1) =>
        fn_result.popped \o Reverse(fn_result.views[1].partial_data)
            = EntriesInBlobOrder(fn_args.witnesses)

\* three different entries, and a witness without entry among them, all popped
C19_Witness ==
    /\ fn_result.leftmost
    /\ Len(fn_args.witnesses) = 4
    /\ Len(fn_result.views) = 1
    /\ fn_result.views[1].partial_data = <<>>
    /\ Len(fn_result.popped) = 3
    /\ fn_result.popped = EntriesInBlobOrder(fn_args.witnesses)
    /\ fn_result.popped[1] # fn_result.popped[2]
    /\ fn_result.popped[2] # fn_result.popped[3]
    /\ fn_result.popped[1] # fn_result.popped[3]

\* ------------------------------------------------------------------ a transaction with several wallet blobs
\* the wallet blobs a batch is made of: actions on alice and on bob
BatchNonces == {1, 2}

BatchActions ==
    {VerifyIdentity("alice", n) : n \in BatchNonces}
    \cup {AddSessionKey("alice", Hex("k1"), 2, None, NoLane, n) : n \in BatchNonces}
    \cup {RemoveSessionKey("alice", Hex("k1"), n) : n \in BatchNonces}
    \cup {RegisterIdentity("bob", 0, "salt1", PasswordAuth, "code1"),
          VerifyIdentity("bob", 1)}

BatchActionLists == UNION {[1..n -> BatchActions] : n \in 2..MaxBatch}

\* a batch: the wallet blobs, the secret and the invite blob of bob's registration
BatchCalldatas ==
    {Calldata(TxIdentity("alice"),
              IndexedBlobs([i \in 1..Len(actions) |-> as_blob(actions[i], "wallet")]
                             \o <<RawBlob("check_secret", pw),
                                   Secp256k1Blob(TxIdentity("alice"), InviteMsg("code1", "bob"), k)>>),
              Len(actions) + 2, 0, DefaultCtx) :
        actions \in BatchActionLists, pw \in {"pw1", "pw2"},
        k \in {DEFAULT_INVITE_CODE_PUBLIC_KEY, "key4"}}

\* the number of wallet blobs of the transaction; they are its first blobs
WalletBlobCount(cd) == Cardinality(BlobPositions(cd, "wallet"))

\* a transaction with several wallet blobs arrives
BatchStart ==
    \E cd \in BatchCalldatas :
        /\ pc = "idle"
        /\ pc' = "batch"
        /\ fn_args' = [calldata |-> cd, expected_account |-> ""]
        /\ fn_result' = [initial |-> WalletCommitment(Wallet), handled |-> 0,
                         merged |-> NoView, host |-> <<>>, executed |-> 0,
                         view |-> NoView, guest |-> <<>>]
        /\ UNCHANGED <<invite_code_public_key, smt, salts, calldata, metadata, output,
                       zk_view, guest, prev, hist>>

\* The host builds the witness of the next wallet blob, handles the blob, and the
\* witness is merged into the witnesses of the blobs before it.
BatchHandle ==
    LET cd == [fn_args.calldata EXCEPT !.index = fn_result.handled]
        view == build_commitment_metadata(Wallet, BlobsGet(cd, cd.index).blob)
        h == actual_handle(Wallet, cd)
    IN  /\ pc = "batch"
        /\ fn_result.handled < WalletBlobCount(fn_args.calldata)
        /\ invite_code_public_key' = h.wallet.invite_code_public_key
        /\ smt' = h.wallet.smt
        /\ salts' = h.wallet.salts
        /\ fn_result' =
              [fn_result EXCEPT
                  !.handled = @ + 1,
                  !.merged = IF fn_result.handled = 0 THEN view
                             ELSE merge_commitment_metadata(@, view),
                  !.host = Append(@, [ret |-> h.ret, success |-> h.output.success,
                                      msg |-> h.output.program_outputs,
                                      commitment |-> WalletCommitment(h.wallet)])]
        /\ UNCHANGED <<pc, calldata, metadata, output, zk_view, guest, prev, hist, fn_args>>

GuestAborted ==
    /\ fn_result.guest # <<>>
    /\ fn_result.guest[Len(fn_result.guest)].status = "Panic"

\* The guest executes the next wallet blob on the merged view.
BatchExecute ==
    LET cd == [fn_args.calldata EXCEPT !.index = fn_result.executed]
        view == IF fn_result.executed = 0 THEN fn_result.merged ELSE fn_result.view
        g == execute(view, cd)
    IN  /\ pc = "batch"
        /\ fn_result.handled = WalletBlobCount(fn_args.calldata)
        /\ fn_result.executed < fn_result.handled
        /\ ~GuestAborted
        /\ fn_result' =
              [fn_result EXCEPT
                  !.executed = @ + 1,
                  !.view = g.view,
                  !.guest = Append(@, [status |-> g.status, msg |-> g.msg,
                                       commitment |-> g.view.commitment])]
        /\ UNCHANGED <<walletVars, fn_args>>

BatchReturn ==
    /\ pc = "batch"
    /\ fn_result.handled = WalletBlobCount(fn_args.calldata)
    /\ fn_result.executed = fn_result.handled \/ GuestAborted
    /\ pc' = "idle"
    /\ fn_args' = NoArgs
    /\ fn_result' = NoResult
    /\ UNCHANGED <<invite_code_public_key, smt, salts, calldata, metadata, output, zk_view,
                   guest, prev, hist>>

NextBatch ==
    \/ SessionRegister
    \/ Return
    \/ BatchStart
    \/ BatchHandle
    \/ BatchExecute
    \/ BatchReturn

SpecBatch == Init /\ [][NextBatch]_vars

InBatch == pc = "batch"

\* every wallet blob of the batch was handled and succeeded on the host
BatchSucceeded ==
    /\ fn_result.handled = WalletBlobCount(fn_args.calldata)
    /\ \A i \in DOMAIN fn_result.host :
          fn_result.host[i].ret = "Ok" /\ fn_result.host[i].success

\* C20: on the merged witnesses of a batch the guest runs every blob without panic and
\* its commitment after each blob is the host's state commitment after that blob.
C20_BatchEquivalence ==
    InBatch =>
        \A i \in DOMAIN fn_result.guest :
            /\ fn_result.guest[i].status # "Panic"
            /\ fn_result.guest[i].commitment = fn_result.host[i].commitment

\* the same for the batches whose blobs all succeed on the host
C20_SucceedingBatchEquivalence ==
    (InBatch /\ BatchSucceeded) =>
        \A i \in DOMAIN fn_result.guest :
            /\ fn_result.guest[i].status = "Ok"
            /\ fn_result.guest[i].commitment = fn_result.host[i].commitment

\* a batch on two accounts, both blobs succeeding and changing the commitment
C20_SucceedingWitness ==
    /\ InBatch
    /\ BatchSucceeded
    /\ fn_result.executed = 2
    /\ fn_result.host[1].commitment # fn_result.initial
    /\ fn_result.host[2].commitment # fn_result.host[1].commitment
    /\ parse_raw_calldata(fn_args.calldata).action.account = "bob"

\* ------------------------------------------------------------------ C21
\* the blob at the executed index is there and does not decode as a WalletAction
UndecodableHandled ==
    /\ Returned
    /\ BlobsGet(calldata, calldata.index).found
    /\ ~from_blob_data(BlobsGet(calldata, calldata.index).blob.data).ok

\* C21: for a blob that does not decode as a WalletAction, build_commitment_metadata
\* returns a view with the wallet's current commitment, its current invite key and an
\* empty partial_data, and execute on that view returns an error, does not abort and
\* leaves the commitment as it was.
C21_ProofOfFailure ==
    UndecodableHandled =>
        /\ metadata.commitment = WalletCommitment(prev.wallet)
        /\ metadata.invite_code_public_key = prev.wallet.invite_code_public_key
        /\ metadata.partial_data = <<>>
        /\ guest.status = "Err"
        /\ zk_view.commitment = metadata.commitment

\* an undecodable blob handled by a wallet holding a registered account and a set key
C21_Witness ==
    /\ UndecodableHandled
    /\ guest = [status |-> "Err", msg |-> "Could not deserialize Blob at index"]
    /\ StoredRecord(prev.wallet, "alice").auth_method = PasswordAuth
    /\ prev.wallet.invite_code_public_key # DEFAULT_INVITE_CODE_PUBLIC_KEY
    /\ zk_view.commitment = WalletCommitment(prev.wallet)

\* ------------------------------------------------------------------ two instances
\* The tree's leaves and the salts are kept in std HashMaps: what an instance holds
\* beyond the wallet's fields is the order its maps iterate in, which differs from one
\* instance to the next (RandomState).
KeyOrders ==
    {o \in [1..Cardinality(Keys) -> Keys] : \A k \in Keys : \E i \in DOMAIN o : o[i] = k}

\* two of the orders: one meets alice's leaf before bob's, the other after
Hashers ==
    {o \in KeyOrders : /\ o[2] = compute_key("hyli")
                       /\ o[1] \in {compute_key("alice"), compute_key("bob")}}

Instance(wallet, hasher) ==
    [invite_code_public_key |-> wallet.invite_code_public_key, smt |-> wallet.smt,
     salts |-> wallet.salts, hasher |-> hasher]

\* store.leaves_map().iter(): the leaves the store holds, in the map's order
LeavesIter(smt_, hasher) ==
    LET stored(k) == ~to_h256(smt_[k]).zero
        ks == SelectSeq(hasher, stored)
    IN  [i \in 1..Len(ks) |-> smt_[ks[i]]]

\* BorshSerialize for AccountSMT: the number of leaves, then each leaf value
SmtSerialize(smt_, hasher) ==
    [len |-> Len(LeavesIter(smt_, hasher)), leaves |-> LeavesIter(smt_, hasher)]

NoRun == [metadata |-> NoView, ret |-> "None", output |-> NoOutput.output]

NoRuns == [done |-> FALSE, a |-> NoRun, b |-> NoRun]

InitReplica ==
    /\ \E m \in Constructors :
        /\ invite_code_public_key = construct_state(m).invite_code_public_key
        /\ smt = construct_state(m).smt
        /\ salts = construct_state(m).salts
        /\ hist = HistOf(construct_state(m))
        /\ \E ha \in Hashers, hb \in Hashers :
              fn_args = [a |-> Instance(construct_state(m), ha),
                         b |-> Instance(construct_state(m), hb)]
    /\ pc = "idle"
    /\ calldata = NoCalldata
    /\ metadata = NoView
    /\ output = NoOutput
    /\ zk_view = NoView
    /\ guest = NoGuest
    /\ prev = NoPrev
    /\ fn_result = NoRuns

\* what the executor gets from one instance for one blob: the witness, then the output
RunOn(wallet, cd) ==
    [metadata |-> build_commitment_metadata(wallet, BlobsGet(cd, cd.index).blob),
     ret |-> actual_handle(wallet, cd).ret,
     output |-> actual_handle(wallet, cd).output]

\* both instances are given the same call data
ReplicaHandle(cd) ==
    /\ pc = "idle"
    /\ pc' = "returned"
    /\ calldata' = cd
    /\ fn_result' = [done |-> TRUE, a |-> RunOn(fn_args.a, cd), b |-> RunOn(fn_args.b, cd)]
    /\ fn_args' = [a |-> actual_handle(fn_args.a, cd).wallet,
                   b |-> actual_handle(fn_args.b, cd).wallet]
    /\ UNCHANGED <<invite_code_public_key, smt, salts, metadata, output, zk_view, guest,
                   prev, hist>>

ReplicaRegisterCalldatas ==
    UNION {{TxCalldata(a, <<>>, RegisterIdentity(a, 0, "salt1", PasswordAuth, "code1"),
                       inv \o sec, DefaultCtx) :
                inv \in InviteSides(a), sec \in SecretSides} : a \in Accounts}

ReplicaVerifyCalldatas ==
    UNION {{TxCalldata(a, prior, VerifyIdentity(a, n), sec, DefaultCtx) :
                n \in Nonces, prior \in PriorBlobs(a), sec \in SecretSides \ {<<>>}} :
            a \in Accounts}

ReplicaRegister == \E cd \in ReplicaRegisterCalldatas : ReplicaHandle(cd)

ReplicaVerify == \E cd \in ReplicaVerifyCalldatas : ReplicaHandle(cd)

ReplicaUpdateInviteKey == \E cd \in UpdateInviteCalldatas(fn_args.a) : ReplicaHandle(cd)

ReplicaUndecodable == \E cd \in UndecodableCalldatas : ReplicaHandle(cd)

NextReplica ==
    \/ ReplicaRegister
    \/ ReplicaVerify
    \/ ReplicaUpdateInviteKey
    \/ ReplicaUndecodable
    \/ Return

SpecReplica == InitReplica /\ [][NextReplica]_vars

RECURSIVE InsertLeaves(_, _, _, _)
\* the loop of deserialize_reader: each record read is inserted under the key computed
\* from its identity
InsertLeaves(accounts, leaves, i, len) ==
    IF i > len THEN accounts
    ELSE InsertLeaves(SmtUpdate(accounts, compute_key(leaves[i].identity), leaves[i]),
                      leaves, i + 1, len)

\* mutant: the loop misses the first record
SmtDeserialize_one_short(bytes) == InsertLeaves(SmtDefault, bytes.leaves, 2, bytes.len)

\* BorshDeserialize for AccountSMT
SmtDeserialize(bytes) == InsertLeaves(SmtDefault, bytes.leaves, 1, bytes.len)

NoSnapshot == [done |-> FALSE, bytes |-> SmtSerialize(SmtDefault, <<>>), smt |-> SmtDefault]

InitSnapshot ==
    /\ \E m \in Constructors :
        /\ invite_code_public_key = construct_state(m).invite_code_public_key
        /\ smt = construct_state(m).smt
        /\ salts = construct_state(m).salts
        /\ hist = HistOf(construct_state(m))
    /\ pc = "idle"
    /\ calldata = NoCalldata
    /\ metadata = NoView
    /\ output = NoOutput
    /\ zk_view = NoView
    /\ guest = NoGuest
    /\ prev = NoPrev
    /\ fn_args = [hasher |-> <<>>]
    /\ fn_result = NoSnapshot

\* the tree is written out, in the order its leaves map iterates in, and read back
Snapshot ==
    \E hasher \in KeyOrders :
        /\ pc = "idle"
        /\ pc' = "snapshot"
        /\ fn_args' = [hasher |-> hasher]
        /\ fn_result' = [done |-> TRUE,
                         bytes |-> SmtSerialize(smt, hasher),
                         smt |-> SmtDeserialize(SmtSerialize(smt, hasher))]
        /\ UNCHANGED <<invite_code_public_key, smt, salts, calldata, metadata, output,
                       zk_view, guest, prev, hist>>

\* the wallet goes on from the tree it read back
Reload ==
    /\ pc = "snapshot"
    /\ pc' = "idle"
    /\ smt' = fn_result.smt
    /\ fn_args' = [hasher |-> <<>>]
    /\ fn_result' = NoSnapshot
    /\ UNCHANGED <<invite_code_public_key, salts, calldata, metadata, output, zk_view,
                   guest, prev, hist>>

NextSnapshot ==
    \/ Register
    \/ Verify
    \/ AddKey
    \/ RemoveKey
    \/ Return
    \/ Snapshot
    \/ Reload

SpecSnapshot == InitSnapshot /\ [][NextSnapshot]_vars

\* C23: for every reachable wallet state, serializing the tree as the length-prefixed
\* list of its account records and deserializing that list gives a tree with the same
\* root, so the same state commitment, and the same record for every account.
C23_SnapshotRoundTrip ==
    pc = "snapshot" =>
        /\ SmtRoot(fn_result.smt) = SmtRoot(smt)
        /\ get_state_commitment(SmtRoot(fn_result.smt), invite_code_public_key)
              = WalletCommitment(Wallet)
        /\ \A i \in Identities :
              SmtGet(fn_result.smt, compute_key(i)) = SmtGet(smt, compute_key(i))

\* three accounts, one of them with a session key, written with bob's record first
C23_Witness ==
    /\ pc = "snapshot"
    /\ fn_result.bytes.len = 3
    /\ fn_result.bytes.leaves[1].identity = "bob"
    /\ \E i \in 1..3 : fn_result.bytes.leaves[i].session_keys # <<>>
    /\ fn_result.smt = smt

\* ------------------------------------------------------------------ invite codes
\* The invite_codes table and the concurrent calls of consume_invite.  The statement
\* runs in its own transaction: the sub-select visits the rows in no promised order,
\* skips a row another transaction holds locked, locks the first row it finds unused
\* and stops (LIMIT 1); the UPDATE writes that row; the commit releases the lock.
InviteCodes == {"code1", "code2"}

InviteWallets == {"alice", "bob"}

\* a row: wallet "" and used_at 0 stand for NULL
InviteRow(code, wallet, used_at) == [code |-> code, wallet |-> wallet, used_at |-> used_at]

InviteRows ==
    {InviteRow(c, "", 0) : c \in InviteCodes} \cup {InviteRow("code1", "carol", 1)}

RowRank(row) == IF row.used_at # 0 THEN 3 ELSE IF row.code = "code1" THEN 1 ELSE 2

\* the tables of up to MaxRows rows; the order of the rows says nothing (the sub-select
\* visits them in any order), so one table stands for its rearrangements
InviteTables ==
    UNION {{t \in [1..n -> InviteRows] :
                \A i \in 1..(n - 1) : RowRank(t[i]) <= RowRank(t[i + 1])} : n \in 1..MaxRows}

CallIds == 1..MaxCalls

NoBlob == Blob("", DataDefault)

IdleCall ==
    [pc |-> "idle", code |-> "", wallet |-> "", visited |-> {}, row |-> 0,
     returned |-> "none", blob |-> NoBlob]

InitInvite ==
    /\ invite_code_public_key = construct_state(NoConstructor).invite_code_public_key
    /\ smt = construct_state(NoConstructor).smt
    /\ salts = construct_state(NoConstructor).salts
    /\ hist = HistOf(construct_state(NoConstructor))
    /\ pc = "idle"
    /\ calldata = NoCalldata
    /\ metadata = NoView
    /\ output = NoOutput
    /\ zk_view = NoView
    /\ guest = NoGuest
    /\ prev = NoPrev
    /\ \E t \in InviteTables :
          fn_args = [rows |-> t, initial |-> t, locks |-> [i \in DOMAIN t |-> 0],
                     bound |-> [i \in DOMAIN t |-> <<>>]]
    /\ fn_result = [c \in CallIds |-> IdleCall]

\* mutant: the sub-select is a plain SELECT, which neither skips nor takes a lock
RowAvailable_ignoring_locks(table, i, code) ==
    /\ table.rows[i].code = code
    /\ table.rows[i].used_at = 0
    /\ table.rows[i].wallet = ""

\* WHERE code = $1 AND used_at IS NULL and wallet IS NULL FOR UPDATE SKIP LOCKED
RowAvailable(table, i, code) ==
    /\ table.locks[i] = 0
    /\ table.rows[i].code = code
    /\ table.rows[i].used_at = 0
    /\ table.rows[i].wallet = ""

\* route_consume_invite: a request arrives and its statement starts
ConsumeStart ==
    \E c \in CallIds, code \in InviteCodes, wallet \in InviteWallets :
        /\ fn_result[c].pc = "idle"
        /\ fn_result' = [fn_result EXCEPT ![c] =
                            [IdleCall EXCEPT !.pc = "select", !.code = code, !.wallet = wallet]]
        /\ UNCHANGED <<fn_args, walletVars>>

\* the sub-select visits one more row: it locks it and stops, or passes it by
SelectRow ==
    \E c \in CallIds, i \in DOMAIN fn_args.rows :
        /\ fn_result[c].pc = "select"
        /\ i \notin fn_result[c].visited
        /\ IF RowAvailable(fn_args, i, fn_result[c].code)
           THEN /\ fn_args' = [fn_args EXCEPT !.locks[i] = c]
                /\ fn_result' = [fn_result EXCEPT ![c].pc = "update", ![c].row = i,
                                                  ![c].visited = {}]
           ELSE /\ fn_result' = [fn_result EXCEPT ![c].visited = @ \cup {i}]
                /\ UNCHANGED fn_args
        /\ UNCHANGED walletVars

\* the sub-select found no row: the UPDATE has nothing to write
SelectNone ==
    \E c \in CallIds :
        /\ fn_result[c].pc = "select"
        /\ fn_result[c].visited = DOMAIN fn_args.rows
        /\ fn_result' = [fn_result EXCEPT ![c].pc = "respond", ![c].visited = {}]
        /\ UNCHANGED <<fn_args, walletVars>>

\* SET used_at = NOW(), wallet = $2 WHERE id = the row selected
UpdateRow ==
    \E c \in CallIds :
        /\ fn_result[c].pc = "update"
        /\ fn_args' = [fn_args EXCEPT
                          !.rows[fn_result[c].row] =
                              [@ EXCEPT !.used_at = 1, !.wallet = fn_result[c].wallet],
                          !.bound[fn_result[c].row] = Append(@, fn_result[c].wallet)]
        /\ fn_result' = [fn_result EXCEPT ![c].pc = "commit"]
        /\ UNCHANGED walletVars

\* the statement's transaction commits and its row lock is released
CommitRow ==
    \E c \in CallIds :
        /\ fn_result[c].pc = "commit"
        /\ fn_args' = [fn_args EXCEPT
                          !.locks = [i \in DOMAIN @ |-> IF @[i] = c THEN 0 ELSE @[i]]]
        /\ fn_result' = [fn_result EXCEPT ![c].pc = "respond"]
        /\ UNCHANGED walletVars

\* invite.is_none(): the call returns the error
RespondNotFound ==
    \E c \in CallIds :
        /\ fn_result[c].pc = "respond"
        /\ fn_result[c].row = 0
        /\ fn_result' = [fn_result EXCEPT ![c] = [IdleCall EXCEPT !.pc = "done",
                                                                  !.returned = "Err"]]
        /\ UNCHANGED <<fn_args, walletVars>>

\* the blob signing 'Invite - {code} for {wallet}' is built and returned
RespondSigned ==
    \E c \in CallIds :
        /\ fn_result[c].pc = "respond"
        /\ fn_result[c].row # 0
        /\ fn_result' = [fn_result EXCEPT ![c] =
                [IdleCall EXCEPT
                    !.pc = "done", !.returned = "Ok", !.row = fn_result[c].row,
                    !.blob = Secp256k1Blob(TxIdentity(fn_result[c].wallet),
                                 InviteMsg(fn_result[c].code, fn_result[c].wallet), "key4")]]
        /\ UNCHANGED <<fn_args, walletVars>>

\* Secp256k1Blob::new(..)? failed: the row stays consumed and no blob is returned
RespondSignFailed ==
    \E c \in CallIds :
        /\ fn_result[c].pc = "respond"
        /\ fn_result[c].row # 0
        /\ fn_result' = [fn_result EXCEPT ![c] =
                [IdleCall EXCEPT !.pc = "done", !.returned = "Err", !.row = fn_result[c].row]]
        /\ UNCHANGED <<fn_args, walletVars>>

NextInvite ==
    \/ ConsumeStart
    \/ SelectRow
    \/ SelectNone
    \/ UpdateRow
    \/ CommitRow
    \/ RespondNotFound
    \/ RespondSigned
    \/ RespondSignFailed

SpecInvite == InitInvite /\ [][NextInvite]_vars

\* the calls that returned a signed invite blob for a code
SignedFor(code) ==
    {c \in CallIds : \E w \in InviteWallets :
        fn_result[c].blob.data.secp.data = Sha256(InviteMsg(code, w))}

\* the rows that held a code unused when the calls began
UnusedRowsOf(code) ==
    {i \in DOMAIN fn_args.initial :
        /\ fn_args.initial[i].code = code
        /\ fn_args.initial[i].used_at = 0
        /\ fn_args.initial[i].wallet = ""}

\* C24: under any interleaving of concurrent consume_invite calls, every row is bound
\* to at most one wallet, the signed invite blobs issued for a code are never more than
\* the unused rows that held the code, and a call that binds no row returns an error
\* and signs nothing.
C24_InviteConsumptionAtomic ==
    /\ \A i \in DOMAIN fn_args.rows : Len(fn_args.bound[i]) <= 1
    /\ \A i \in DOMAIN fn_args.rows :
          fn_args.initial[i].used_at # 0 => fn_args.rows[i] = fn_args.initial[i]
    /\ \A code \in InviteCodes :
          Cardinality(SignedFor(code)) <= Cardinality(UnusedRowsOf(code))
    /\ \A c \in CallIds :
          (fn_result[c].pc = "done" /\ fn_result[c].row = 0) =>
              (fn_result[c].returned = "Err" /\ fn_result[c].blob = NoBlob)

\* every call raced for the one unused row of a code: one was given the blob, the
\* others the error
C24_Witness ==
    /\ Cardinality(UnusedRowsOf("code1")) = 1
    /\ UnusedRowsOf("code2") = {}
    /\ \A c \in CallIds : fn_result[c].pc = "done"
    /\ Cardinality(SignedFor("code1")) = 1
    /\ Cardinality({c \in CallIds : fn_result[c].row = 0 /\ fn_result[c].returned = "Err"})
          = MaxCalls - 1

\* ------------------------------------------------------------------ invited registrations
\* the invite blobs a registration may come with: none, or one issued to either
\* account, for either code, signed by any of three keys, sent by either identity
InviteBlobs ==
    {<<>>} \cup
    {<<Secp256k1Blob(TxIdentity(sender), InviteMsg(code, account), k)>> :
        sender \in Accounts, account \in Accounts, code \in InviteCodes, k \in InviteKeys}

InvitedCalldatas ==
    {TxCalldata(a, <<>>, RegisterIdentity(a, 0, "salt1", PasswordAuth, "code1"),
                sec \o inv, DefaultCtx) :
        a \in Accounts, inv \in InviteBlobs,
        sec \in {<<>>, <<RawBlob("check_secret", "pw1")>>}}

RegisterInvited == \E cd \in InvitedCalldatas : HandleBlob(cd)

NextInvited ==
    \/ RegisterInvited
    \/ UpdateInviteKey
    \/ Return

SpecInvited == Init /\ [][NextInvited]_vars

RegistrationHandled ==
    /\ NonAdministrative
    /\ HandledAction.type = "RegisterIdentity"

\* the call data holds a secp256k1 blob over 'Invite - {invite_code} for {account}'
\* of the handled registration, with the given public key
CarriesInvite(cd, action, public_key) ==
    \E i \in DOMAIN cd.blobs :
        /\ cd.blobs[i].blob.contract_name = "secp256k1"
        /\ cd.blobs[i].blob.data.kind = "Secp256k1Blob"
        /\ cd.blobs[i].blob.data.secp.data
              = Sha256(InviteMsg(action.invite_code, action.account))
        /\ cd.blobs[i].blob.data.secp.public_key = public_key

\* C25: a RegisterIdentity{account, invite_code} succeeds, on the host or on the guest,
\* only if the call data carries a secp256k1 blob over 'Invite - {invite_code} for
\* {account}' whose public key is the wallet's invite_code_public_key; with an invite
\* blob for another account, for another code or of another key it fails on both.
C25_InviteRequired ==
    (RegistrationHandled /\ (HostSucceeded \/ guest.status = "Ok")) =>
        CarriesInvite(calldata, HandledAction, prev.wallet.invite_code_public_key)

\* a registration accepted on both sides under an invite key set by an update
C25_Witness ==
    /\ RegistrationHandled
    /\ HostSucceeded
    /\ guest.status = "Ok"
    /\ prev.wallet.invite_code_public_key = "key5"
    /\ CarriesInvite(calldata, HandledAction, "key5")
    /\ Registered(Wallet, HandledAction.account)

\* a registration whose only fault is the key its invite blob was signed with
C25_WitnessOtherKey ==
    /\ RegistrationHandled
    /\ HostFailed
    /\ guest = [status |-> "Err", msg |-> "Invalid public key"]
    /\ prev.wallet.invite_code_public_key = "key5"
    /\ CarriesInvite(calldata, HandledAction, "key4")

\* ------------------------------------------------------------------ C26
\* an update of the invite key handled while the key is the default one, naming the
\* root of the host's tree
FirstUpdateHandled ==
    /\ Administrative
    /\ prev.wallet.invite_code_public_key = DEFAULT_INVITE_CODE_PUBLIC_KEY
    /\ HandledAction.smt_root = SmtRoot(prev.wallet.smt)

\* a registration of an unregistered account that comes with its secret and with an
\* invite blob of the wallet's key, handled after an update set that key
RegistrationAfterUpdate ==
    /\ RegistrationHandled
    /\ prev.hist.origin = "update"
    /\ ~Registered(prev.wallet, HandledAction.account)
    /\ AuthVerify(HandledAction.auth_method, calldata, HandledAction.nonce).ok
    /\ check_for_invite_code(HandledAction.account, HandledAction.invite_code, calldata,
                             prev.wallet.invite_code_public_key).ok

\* C26: an UpdateInviteCodePublicKey run while the invite key is the default one and
\* naming the host's current root sets the key of the guest's view to the new key and
\* leaves the guest with the commitment the host has after handling it; a registration
\* run afterwards on a freshly built witness succeeds on the host and on the guest.
C26_UpdateThenRegister ==
    /\ FirstUpdateHandled =>
          /\ HostSucceeded
          /\ guest.status = "Ok"
          /\ zk_view.invite_code_public_key = HandledAction.invite_code_public_key
          /\ zk_view.commitment = WalletCommitment(Wallet)
    /\ RegistrationAfterUpdate =>
          /\ HostSucceeded
          /\ guest.status = "Ok"
          /\ Registered(Wallet, HandledAction.account)
          /\ zk_view.commitment = WalletCommitment(Wallet)

\* the registration that follows the update of the key to key4
C26_Witness ==
    /\ RegistrationAfterUpdate
    /\ prev.wallet.invite_code_public_key = "key4"
    /\ metadata.invite_code_public_key = "key4"
    /\ HostSucceeded
    /\ zk_view.commitment # metadata.commitment

\* the update itself, on a tree that holds an account already
C26_WitnessUpdate ==
    /\ FirstUpdateHandled
    /\ HandledAction.invite_code_public_key = "key4"
    /\ HandledAction.smt_root # SmtRoot(SmtDefault)
    /\ zk_view.commitment # metadata.commitment

\* ------------------------------------------------------------------ C27
\* the view claims an invite key that is not the key of its declared commitment
ClaimsOtherKey ==
    /\ Returned
    /\ parse_raw_calldata(calldata).ok
    /\ metadata.invite_code_public_key # metadata.commitment.pubkey

\* C27 (as claimed): on a view whose invite_code_public_key is not the key hashed into
\* its declared commitment, execute of any action, UpdateInviteCodePublicKey included,
\* does not return Ok and leaves the commitment as declared.
C27_KeyBoundIntoCommitment ==
    ClaimsOtherKey =>
        /\ guest.status # "Ok"
        /\ zk_view.commitment = metadata.commitment

\* the same for the actions on an account: the commitment derived from the popped
\* entry and the claimed key is not the declared one, and execute panics
C27_KeyBoundForAccountActions ==
    (ClaimsOtherKey /\ NonAdministrative) =>
        /\ guest.status = "Panic"
        /\ zk_view.commitment = metadata.commitment

C27_AccountActionWitness ==
    /\ ClaimsOtherKey
    /\ NonAdministrative
    /\ metadata.commitment = WalletCommitment(Wallet)
    /\ guest = [status |-> "Panic", msg |-> "State commitment mismatch"]

\* the key of a wallet constructed with key4 is rotated to key5 by a view that claims
\* the key is still the default one
C27_RotationWitness ==
    /\ ClaimsOtherKey
    /\ Administrative
    /\ invite_code_public_key = "key4"
    /\ metadata.commitment = WalletCommitment(Wallet)
    /\ metadata.invite_code_public_key = DEFAULT_INVITE_CODE_PUBLIC_KEY
    /\ guest.status = "Ok"
    /\ zk_view.commitment = get_state_commitment(SmtRoot(smt), "key5")

\* ------------------------------------------------------------------ C28
\* an action that needs an authenticated account names an account with no record
UnregisteredNamed ==
    /\ NonAdministrative
    /\ HandledAction.type \in {"VerifyIdentity", "AddSessionKey", "RemoveSessionKey",
                               "UseSessionKey"}
    /\ ~Registered(prev.wallet, HandledAction.account)

\* C28: VerifyIdentity, AddSessionKey, RemoveSessionKey and UseSessionKey naming an
\* account whose record is Uninitialized fail on the host and on the guest, whatever
\* side blobs the call data carries, and the account stays absent from the tree.
C28_UnregisteredNeverAuthenticates ==
    UnregisteredNamed =>
        /\ HostFailed
        /\ guest.status # "Ok"
        /\ StoredRecord(Wallet, HandledAction.account) = AccountInfoDefault
        /\ SmtRoot(smt)[compute_key(HandledAction.account)] = ZeroLeaf
        /\ WalletCommitment(Wallet) = WalletCommitment(prev.wallet)

\* a session-key use for an unregistered account got as far as the key lookup, with a
\* signed nonce that the record took
C28_Witness ==
    /\ UnregisteredNamed
    /\ HandledAction.type = "UseSessionKey"
    /\ HandledAction.nonce > 0
    /\ guest = [status |-> "Err", msg |-> "Session key not found"]
    /\ output.ret = "Ok"
    /\ StoredRecord(Wallet, HandledAction.account) = AccountInfoDefault

\* a VerifyIdentity for an unregistered account that carries a password secret
C28_WitnessVerify ==
    /\ UnregisteredNamed
    /\ HandledAction.type = "VerifyIdentity"
    /\ BlobPositions(calldata, "check_secret") # {}
    /\ guest = [status |-> "Err", msg |-> "Wallet is not initialized"]

\* ------------------------------------------------------------------ signing requests
\* The pending signing requests of the signing service, the cleanup task and a clock
\* in seconds.  The cleanup task runs cleanup_expired at every tick of its interval,
\* the first tick at once; nothing delays it.
REQUEST_TIMEOUT_SECS == 120

CleanupIntervalSecs == 30

\* the clock moves in steps of a third of the cleanup interval
ClockStep == CleanupIntervalSecs \div 3

RequestIds == {"r1", "r2"}

\* an entry of pending_requests: absent, or a PendingRequest with its created_at
NotPending == [pending |-> FALSE, created_at |-> 0]

PendingRequest(created_at) == [pending |-> TRUE, created_at |-> created_at]

NoAnswer == [kind |-> "none", request_id |-> "", request |-> NotPending]

InitSigning ==
    /\ invite_code_public_key = construct_state(NoConstructor).invite_code_public_key
    /\ smt = construct_state(NoConstructor).smt
    /\ salts = construct_state(NoConstructor).salts
    /\ hist = HistOf(construct_state(NoConstructor))
    /\ pc = "idle"
    /\ calldata = NoCalldata
    /\ metadata = NoView
    /\ output = NoOutput
    /\ zk_view = NoView
    /\ guest = NoGuest
    /\ prev = NoPrev
    /\ fn_args = [now |-> 0, next_cleanup |-> 0]
    /\ fn_result = [pending_requests |-> [r \in RequestIds |-> NotPending],
                    answer |-> NoAnswer]

\* time passes, but not past a tick of the cleanup interval that is due
AdvanceClock ==
    /\ fn_result.answer = NoAnswer
    /\ fn_args.now < fn_args.next_cleanup
    /\ fn_args.now + ClockStep <= MaxTime
    /\ fn_args' = [fn_args EXCEPT !.now = @ + ClockStep]
    /\ UNCHANGED <<fn_result, walletVars>>

\* register_request: the request is inserted with created_at = now
RegisterSigningRequest ==
    \E r \in RequestIds :
        /\ fn_result.answer = NoAnswer
        /\ fn_result' = [fn_result EXCEPT !.pending_requests[r] = PendingRequest(fn_args.now)]
        /\ UNCHANGED <<fn_args, walletVars>>

\* cancel_request
CancelSigningRequest ==
    \E r \in RequestIds :
        /\ fn_result.answer = NoAnswer
        /\ fn_result.pending_requests[r].pending
        /\ fn_result' = [fn_result EXCEPT !.pending_requests[r] = NotPending]
        /\ UNCHANGED <<fn_args, walletVars>>

\* submit_signature, requests.remove(request_id): the request is there
SubmitFinds(request) == request.pending

\* submit_signature: a request found is removed and the signature forwarded to the
\* requester (or the requester's channel is closed); otherwise the error
SubmitSignature ==
    \E r \in RequestIds :
        /\ fn_result.answer = NoAnswer
        /\ IF SubmitFinds(fn_result.pending_requests[r])
           THEN \E kind \in {"forwarded", "Failed to send response to web wallet"} :
                    fn_result' = [pending_requests |->
                                     [fn_result.pending_requests EXCEPT ![r] = NotPending],
                                  answer |-> [kind |-> kind, request_id |-> r,
                                              request |-> fn_result.pending_requests[r]]]
           ELSE fn_result' = [fn_result EXCEPT
                                 !.answer = [kind |-> "not found or expired",
                                             request_id |-> r, request |-> NotPending]]
        /\ UNCHANGED <<fn_args, walletVars>>

\* the submitter is answered
AnswerSubmit ==
    /\ fn_result.answer # NoAnswer
    /\ fn_result' = [fn_result EXCEPT !.answer = NoAnswer]
    /\ UNCHANGED <<fn_args, walletVars>>

\* cleanup_expired at a tick of the interval: the requests as old as the timeout go
cleanup_expired ==
    /\ fn_result.answer = NoAnswer
    /\ fn_args.now = fn_args.next_cleanup
    /\ fn_result' = [fn_result EXCEPT !.pending_requests =
                        [r \in RequestIds |->
                            IF @[r].pending /\ fn_args.now - @[r].created_at >= REQUEST_TIMEOUT_SECS
                            THEN NotPending ELSE @[r]]]
    /\ fn_args' = [fn_args EXCEPT !.next_cleanup = @ + CleanupIntervalSecs]
    /\ UNCHANGED walletVars

NextSigning ==
    \/ AdvanceClock
    \/ RegisterSigningRequest
    \/ CancelSigningRequest
    \/ SubmitSignature
    \/ AnswerSubmit
    \/ cleanup_expired

SpecSigning == InitSigning /\ [][NextSigning]_vars

\* the age of the request whose signature was just forwarded
ForwardedAge == fn_args.now - fn_result.answer.request.created_at

\* C29 (as claimed): a signature submitted more than 120 seconds after its request was
\* registered is never forwarded to the requester.
C29_ExpiresAfterTimeout ==
    fn_result.answer.kind = "forwarded" => ForwardedAge <= REQUEST_TIMEOUT_SECS

\* what the cleanup task gives: a forwarded signature is younger than the timeout plus
\* one cleanup interval, and a request that is not pending is answered with the error
C29_ExpiresWithinCleanupInterval ==
    /\ fn_result.answer.kind = "forwarded" =>
          ForwardedAge < REQUEST_TIMEOUT_SECS + CleanupIntervalSecs
    /\ fn_result.answer.kind = "not found or expired" =>
          fn_result.answer.request = NotPending

\* a signature forwarded 140 seconds after its request was registered
C29_LateForwardWitness ==
    /\ fn_result.answer.kind = "forwarded"
    /\ ForwardedAge = REQUEST_TIMEOUT_SECS + 2 * ClockStep

\* a request the cleanup task removed: its signature meets the error
C29_ExpiredWitness ==
    /\ fn_result.answer.kind = "not found or expired"
    /\ fn_args.now >= REQUEST_TIMEOUT_SECS
    /\ \A r \in RequestIds : fn_result.pending_requests[r] = NotPending

\* ------------------------------------------------------------------ ECDSA authentication
\* AuthMethod::verify of an account bound to an Ethereum or HyliApp address, on a
\* transaction whose index 1 holds any blob, or none.
AuthPublicKeys == {"pk1", "pk2", "not_a_key"}

AuthTypes == {"Ethereum", "HyliApp"}

AuthSigners == {"alice", "bob"}

AuthNonces == 1..2

\* the contracts a blob at index 1 is addressed to
WitnessContracts == {"secp256k1", "check_secret"}

\* blobs whose bytes decode as a Secp256k1Blob
AuthWitnessBlobs ==
    {Blob(c, [DataDefault EXCEPT !.kind = "Secp256k1Blob",
                  !.secp = [identity |-> TxIdentity(a), data |-> ExpectedDigest(t, TxIdentity(a), n),
                            public_key |-> k]]) :
        c \in WitnessContracts, t \in AuthTypes, a \in AuthSigners, n \in AuthNonces,
        k \in AuthPublicKeys}

AuthBlobLists ==
    {<<as_blob(VerifyIdentity("alice", n), "wallet")>> : n \in AuthNonces}
    \cup {<<as_blob(VerifyIdentity("alice", n), "wallet"), b>> :
             n \in AuthNonces, b \in AuthWitnessBlobs \cup {RawBlob("secp256k1", "junk")}}

\* the account's address is the one derived from pk1
AuthMethods ==
    {AuthEthereum(Address("0x", DerivedAddress("Ethereum", "pk1"))),
     AuthHyliApp(Address("", DerivedAddress("HyliApp", "pk1")))}

AuthInputs ==
    {[auth_method |-> m,
      calldata |-> Calldata(TxIdentity(a), IndexedBlobs(blobs), Len(blobs), 0, NoTxCtx),
      wallet_blob_nonce |-> n] :
        m \in AuthMethods, a \in AuthSigners, blobs \in AuthBlobLists, n \in AuthNonces}

NoAuthResult == [done |-> FALSE, ok |-> FALSE, msg |-> ""]

InitAuth ==
    /\ invite_code_public_key = construct_state(NoConstructor).invite_code_public_key
    /\ smt = construct_state(NoConstructor).smt
    /\ salts = construct_state(NoConstructor).salts
    /\ hist = HistOf(construct_state(NoConstructor))
    /\ pc = "idle"
    /\ calldata = NoCalldata
    /\ metadata = NoView
    /\ output = NoOutput
    /\ zk_view = NoView
    /\ guest = NoGuest
    /\ prev = NoPrev
    /\ fn_args \in AuthInputs
    /\ fn_result = NoAuthResult

Authenticate ==
    /\ ~fn_result.done
    /\ LET r == AuthVerify(fn_args.auth_method, fn_args.calldata, fn_args.wallet_blob_nonce)
       IN  fn_result' = [done |-> TRUE, ok |-> r.ok, msg |-> r.msg]
    /\ UNCHANGED <<fn_args, walletVars>>

NextAuth == Authenticate

SpecAuth == InitAuth /\ [][NextAuth]_vars

AuthSucceeded == fn_result.done /\ fn_result.ok

\* the blob at index 1 of the transaction
WitnessAt1 == BlobsGet(fn_args.calldata, 1)

\* the blob at index 1 decodes as a Secp256k1Blob carrying the expected digest for
\* (calldata.identity, nonce) and a public key that derives to the account's address
CarriesExpectedWitness ==
    /\ WitnessAt1.found
    /\ WitnessAt1.blob.data.kind = "Secp256k1Blob"
    /\ WitnessAt1.blob.data.secp.data =
          ExpectedDigest(fn_args.auth_method.type, fn_args.calldata.identity,
                         fn_args.wallet_blob_nonce)
    /\ parse_public_key(WitnessAt1.blob.data.secp.public_key)
    /\ DerivedAddress(fn_args.auth_method.type, WitnessAt1.blob.data.secp.public_key) =
          ExpectedAddress(fn_args.auth_method.v)

\* C30 (as claimed): Ethereum and HyliApp authentication succeed only when the blob at
\* index 1 is a blob of contract secp256k1 carrying the expected digest and a public
\* key deriving to the account's address.
C30_WitnessIsSecp256k1Blob ==
    AuthSucceeded =>
        /\ CarriesExpectedWitness
        /\ WitnessAt1.blob.contract_name = "secp256k1"

\* what verify checks: the bytes of the blob at index 1, whatever its contract
C30_WitnessBytesChecked ==
    fn_result.done => (fn_result.ok <=> CarriesExpectedWitness)

\* authentication succeeded on a blob of another contract at index 1
C30_OtherContractWitness ==
    /\ AuthSucceeded
    /\ WitnessAt1.blob.contract_name # "secp256k1"

\* authentication succeeded on a secp256k1 blob at index 1
C30_Secp256k1Witness ==
    /\ AuthSucceeded
    /\ WitnessAt1.blob.contract_name = "secp256k1"

\* ------------------------------------------------------------------ the guest on views of any length
\* the views execute may be given for a blob: the one the host builds, that view
\* without entries, and that view merged with the witness of another blob, before
\* or after its own entry
MergedViews(wallet, blob) ==
    LET honest == build_commitment_metadata(wallet, blob)
        others == {build_commitment_metadata(wallet, as_blob(VerifyIdentity(b, 0), "wallet")) :
                      b \in Accounts}
    IN  {honest, [honest EXCEPT !.partial_data = <<>>]}
        \cup {merge_commitment_metadata(honest, o) : o \in others}
        \cup {merge_commitment_metadata(o, honest) : o \in others}

ExecuteCalldatas ==
    VerifyCalldatas \cup AddSessionKeyCalldatas \cup UseSessionKeyCalldatas
    \cup UpdateInviteCalldatas(Wallet) \cup UndecodableCalldatas

\* The guest executes a call data on a view of zero, one or two entries.
GuestExecuteMerged ==
    \E cd \in ExecuteCalldatas :
        \E view \in MergedViews(Wallet, BlobsGet(cd, cd.index).blob) :
            ExecuteOnView(cd, view)

NextExecute ==
    \/ SessionRegister
    \/ Verify
    \/ GuestExecuteMerged
    \/ Return

SpecExecute == Init /\ [][NextExecute]_vars

AllButLast(seq) == SubSeq(seq, 1, Len(seq) - 1)

\* C31: execute of a decodable non-administrative action that returns a result,
\* success or failure, has removed exactly the last entry of partial_data; an
\* administrative or undecodable action removes none; a non-administrative action on
\* an empty partial_data aborts.
C31_PopsExactlyLast ==
    Returned =>
        /\ (NonAdministrative /\ guest.status \in {"Ok", "Err"}) =>
              /\ metadata.partial_data # <<>>
              /\ zk_view.partial_data = AllButLast(metadata.partial_data)
        /\ (Administrative \/ ~parse_raw_calldata(calldata).ok) =>
              /\ guest.status \in {"Ok", "Err"}
              /\ zk_view.partial_data = metadata.partial_data
        /\ (NonAdministrative /\ metadata.partial_data = <<>>) => guest.status = "Panic"

\* a successful action on a view of two different entries: the first one is left
C31_Witness ==
    /\ NonAdministrative
    /\ guest.status = "Ok"
    /\ Len(metadata.partial_data) = 2
    /\ metadata.partial_data[1] # metadata.partial_data[2]
    /\ zk_view.partial_data = <<metadata.partial_data[1]>>

\* a failing action on a view of two different entries
C31_WitnessFailure ==
    /\ NonAdministrative
    /\ guest.status = "Err"
    /\ Len(metadata.partial_data) = 2
    /\ metadata.partial_data[1] # metadata.partial_data[2]
    /\ zk_view.partial_data = <<metadata.partial_data[1]>>

\* an administrative action on a view with an entry, and the abort on an empty view
C31_WitnessAdministrative ==
    /\ Administrative
    /\ guest.status = "Ok"
    /\ Len(metadata.partial_data) = 1
    /\ zk_view.partial_data = metadata.partial_data

C31_WitnessAbort ==
    /\ NonAdministrative
    /\ metadata.partial_data = <<>>
    /\ guest.status = "Panic"

\* ------------------------------------------------------------------ salts
\* registrations carrying one of two salts
SaltedRegisterCalldatas ==
    {TxCalldata(a, <<>>, RegisterIdentity(a, 0, s, auth, "code1"), inv \o sec, DefaultCtx) :
        a \in Accounts, s \in {"salt1", "salt2"}, auth \in {PasswordAuth, AuthUninitialized},
        inv \in UNION {InviteSides(b) : b \in Accounts}, sec \in SecretSides}

RegisterSalted == \E cd \in SaltedRegisterCalldatas : HandleBlob(cd)

NextSalts ==
    \/ RegisterSalted
    \/ UpdateInviteKey
    \/ Return

SpecSalts == Init /\ [][NextSalts]_vars

\* Wallet::get_salt
get_salt(wallet, account) ==
    IF account \in DOMAIN wallet.salts
    THEN [ok |-> TRUE, salt |-> wallet.salts[account]]
    ELSE [ok |-> FALSE, salt |-> ""]

RegistrationFailed ==
    /\ NonAdministrative
    /\ HandledAction.type = "RegisterIdentity"
    /\ HostFailed

\* C32 (as claimed): a RegisterIdentity that fails leaves the salts map of the host
\* unchanged, so get_salt of every account returns what it returned before.
C32_FailedRegistrationKeepsSalts ==
    RegistrationFailed =>
        \A a \in Identities : get_salt(Wallet, a) = get_salt(prev.wallet, a)

\* what the handler gives: a failed registration leaves the salts of the other
\* accounts, and a registration refused for its invite code leaves all salts
C32_FailedRegistrationKeepsOtherSalts ==
    RegistrationFailed =>
        /\ \A a \in Identities \ {HandledAction.account} :
              get_salt(Wallet, a) = get_salt(prev.wallet, a)
        /\ output.ret = "Err" => Wallet.salts = prev.wallet.salts

\* the registration of a registered account failed and replaced its salt
C32_OverwriteWitness ==
    /\ RegistrationFailed
    /\ Registered(prev.wallet, HandledAction.account)
    /\ get_salt(prev.wallet, HandledAction.account).ok
    /\ get_salt(Wallet, HandledAction.account).salt
          # get_salt(prev.wallet, HandledAction.account).salt

\* a registration refused for its invite code
C32_RefusedWitness ==
    /\ RegistrationFailed
    /\ output.ret = "Err"
    /\ Registered(prev.wallet, HandledAction.account)

\* ------------------------------------------------------------------ a key update and a registration in one transaction
\* blob #0 an UpdateInviteCodePublicKey, blob #1 a RegisterIdentity, then the secret
\* and the invite blob of the registration
UpdateBatchCalldatas ==
    {Calldata(TxIdentity(a),
              IndexedBlobs(<<as_blob(UpdateInviteCodePublicKey(k, r), "wallet"),
                             as_blob(RegisterIdentity(a, 0, "salt1", PasswordAuth, "code1"),
                                     "wallet"),
                             RawBlob("check_secret", pw),
                             Secp256k1Blob(TxIdentity(a), InviteMsg("code1", a), signer)>>),
              4, 0, DefaultCtx) :
        a \in Accounts, k \in InviteKeys, r \in {SmtRoot(Wallet.smt), SmtRoot(SmtDefault)},
        pw \in {"pw1", "pw2"}, signer \in InviteKeys}

UpdateBatchStart ==
    \E cd \in UpdateBatchCalldatas :
        /\ pc = "idle"
        /\ pc' = "batch"
        /\ fn_args' = [calldata |-> cd, expected_account |-> ""]
        /\ fn_result' = [initial |-> WalletCommitment(Wallet), handled |-> 0,
                         merged |-> NoView, host |-> <<>>, executed |-> 0,
                         view |-> NoView, guest |-> <<>>]
        /\ UNCHANGED <<invite_code_public_key, smt, salts, calldata, metadata, output,
                       zk_view, guest, prev, hist>>

NextUpdateBatch ==
    \/ UpdateBatchStart
    \/ BatchHandle
    \/ BatchExecute
    \/ BatchReturn

SpecUpdateBatch == Init /\ [][NextUpdateBatch]_vars

\* the update and the registration were handled and both succeeded on the host
UpdateThenRegisterSucceeded ==
    /\ InBatch
    /\ BatchSucceeded
    /\ Len(fn_result.host) = 2

\* C33 (as claimed): the merged view carries the invite key hashed into the commitment
\* it keeps, and when the update and the registration succeed on the host the guest
\* succeeds on the merged view at index 0 and 1 with the host's commitments.
C33_MergedViewSelfConsistent ==
    UpdateThenRegisterSucceeded =>
        /\ fn_result.merged.commitment.pubkey = fn_result.merged.invite_code_public_key
        /\ \A i \in DOMAIN fn_result.guest :
              /\ fn_result.guest[i].status = "Ok"
              /\ fn_result.guest[i].commitment = fn_result.host[i].commitment

\* the update of blob #0 set a key other than the default one
KeyChangedInBatch ==
    /\ UpdateThenRegisterSucceeded
    /\ BlobsGet(fn_args.calldata, 0).blob.data.action.invite_code_public_key
          # DEFAULT_INVITE_CODE_PUBLIC_KEY

\* what merge_commitment_metadata gives when the update changes the key: the
\* commitment of the view built before the update with the key of the view built
\* after it, on which the guest succeeds for neither blob
C33_MergedKeepsNextKey ==
    KeyChangedInBatch =>
        /\ fn_result.merged.commitment = fn_result.initial
        /\ fn_result.merged.invite_code_public_key = Wallet.invite_code_public_key
        /\ fn_result.merged.commitment.pubkey # fn_result.merged.invite_code_public_key
        /\ \A i \in DOMAIN fn_result.guest : fn_result.guest[i].status # "Ok"

\* the guest refuses the update the host accepted, then aborts on the registration
C33_DivergenceWitness ==
    /\ KeyChangedInBatch
    /\ fn_result.executed = 2
    /\ fn_result.guest[1].status = "Err"
    /\ fn_result.guest[1].msg = "Invite code public key already set"
    /\ fn_result.guest[2].status = "Panic"

\* ------------------------------------------------------------------ the guest on the witness of another account
\* alice and bob register with the same password and add session keys
MismatchRegisterCalldatas ==
    {TxCalldata(a, <<>>, RegisterIdentity(a, 0, "salt1", PasswordAuth, "code1"),
                <<Secp256k1Blob(TxIdentity(a), InviteMsg("code1", a),
                                DEFAULT_INVITE_CODE_PUBLIC_KEY),
                  RawBlob("check_secret", "pw1")>>, DefaultCtx) : a \in Accounts}

MismatchAddCalldatas ==
    {TxCalldata(a, <<>>, AddSessionKey(a, Hex("k1"), 2, None, NoLane, n),
                <<RawBlob("check_secret", "pw1")>>, DefaultCtx) :
        a \in Accounts, n \in Nonces}

\* an action of each non-administrative variant naming an account, with the secret
\* of the password and a secp256k1 blob signed by the session key
MismatchActions(a) ==
    {RegisterIdentity(a, 0, "salt1", PasswordAuth, "code1")}
    \cup UNION {{VerifyIdentity(a, n), AddSessionKey(a, Hex("k2"), 2, None, NoLane, n),
                 RemoveSessionKey(a, Hex("k1"), n), UseSessionKey(a, n)} : n \in Nonces}

MismatchCalldatas ==
    UNION {{TxCalldata(a, <<>>, action,
                       <<RawBlob("check_secret", "pw1"),
                         Secp256k1Blob(TxIdentity(a),
                                       IF action.type = "RegisterIdentity"
                                       THEN InviteMsg("code1", a) ELSE NonceMsg(action.nonce),
                                       IF action.type = "RegisterIdentity"
                                       THEN DEFAULT_INVITE_CODE_PUBLIC_KEY ELSE "k1")>>,
                       DefaultCtx) : action \in MismatchActions(a)} : a \in Accounts}

MismatchRegister == \E cd \in MismatchRegisterCalldatas : HandleBlob(cd)

MismatchAddKey == \E cd \in MismatchAddCalldatas : HandleBlob(cd)

\* The guest executes an action naming one account on the witness the host builds
\* for another account.
GuestExecuteOther ==
    \E cd \in MismatchCalldatas :
        \E b \in Accounts \ {parse_raw_calldata(cd).action.account} :
            ExecuteOnView(cd, build_commitment_metadata(Wallet,
                                  as_blob(VerifyIdentity(b, 0), "wallet")))

NextMismatch ==
    \/ MismatchRegister
    \/ MismatchAddKey
    \/ GuestExecuteOther
    \/ Return

SpecMismatch == Init /\ [][NextMismatch]_vars

\* the record execute popped
PoppedRecord == metadata.partial_data[Len(metadata.partial_data)].account_info

\* execute ran an action naming another account than the record it popped
PoppedOtherAccount ==
    /\ NonAdministrative
    /\ metadata.partial_data # <<>>
    /\ PoppedRecord.identity # HandledAction.account

\* C34 (as claimed): execute of a non-administrative action, of any variant, naming
\* another account than the identity of the record it pops does not succeed, and the
\* commitment of the view is left as it was.
C34_OtherAccountRefused ==
    PoppedOtherAccount =>
        /\ guest.status # "Ok"
        /\ zk_view.commitment = metadata.commitment

\* what the handlers give: the variants that compare the identity are refused
C34_OtherAccountRefusedButRemove ==
    (PoppedOtherAccount /\ HandledAction.type # "RemoveSessionKey") =>
        /\ guest.status = "Err"
        /\ zk_view.commitment = metadata.commitment

\* a RemoveSessionKey naming alice removed a session key of bob's record
C34_RemoveWitness ==
    /\ PoppedOtherAccount
    /\ HandledAction.type = "RemoveSessionKey"
    /\ guest.status = "Ok"
    /\ PoppedRecord.session_keys # <<>>
    /\ zk_view.commitment # metadata.commitment

\* the other variants reach their identity check: the authentication passes first
C34_RefusedWitness ==
    /\ PoppedOtherAccount
    /\ HandledAction.type = "AddSessionKey"
    /\ guest.status = "Err"
    /\ guest.msg = "Account does not match registered identity"

\* ------------------------------------------------------------------ C35
\* a record without its nonce
WithoutNonce(account_info) == [account_info EXCEPT !.nonce = 0]

\* C35: Wallet::handle of an action naming an account leaves the record of every
\* other account and the invite key as they were, whether it succeeds or fails, and a
\* VerifyIdentity or UseSessionKey changes nothing of the named account's record but
\* its nonce.
C35_OtherAccountsUntouched ==
    NonAdministrative =>
        /\ \A b \in Identities \ {HandledAction.account} :
              StoredRecord(Wallet, b) = StoredRecord(prev.wallet, b)
        /\ Wallet.invite_code_public_key = prev.wallet.invite_code_public_key
        /\ HandledAction.type \in {"VerifyIdentity", "UseSessionKey"} =>
              WithoutNonce(StoredRecord(Wallet, HandledAction.account))
                 = WithoutNonce(StoredRecord(prev.wallet, HandledAction.account))

\* a VerifyIdentity raised the nonce of its account while another account is
\* registered
C35_Witness ==
    /\ NonAdministrative
    /\ HandledAction.type = "VerifyIdentity"
    /\ HostSucceeded
    /\ StoredRecord(Wallet, HandledAction.account).nonce > PriorNonce
    /\ \E b \in Identities \ {HandledAction.account} : Registered(Wallet, b)

\* a UseSessionKey failed after raising the nonce of an account holding session keys
C35_WitnessFailure ==
    /\ NonAdministrative
    /\ HandledAction.type = "UseSessionKey"
    /\ HostFailed
    /\ StoredRecord(Wallet, HandledAction.account).nonce > PriorNonce
    /\ StoredRecord(Wallet, HandledAction.account).session_keys # <<>>
    /\ \E b \in Identities \ {HandledAction.account} : Registered(Wallet, b)

\* ------------------------------------------------------------------ LightWalletExecutor
\* The light executor beside the host: fn_result holds its accounts, salts and invite
\* key, and how its last handle_blob ended. A blob is handled by the host, then by
\* the light executor.
AccountsInsert(accounts, account, account_info) ==
    [a \in DOMAIN accounts \cup {account} |->
        IF a = account THEN account_info ELSE accounts[a]]

\* LightWalletExecutor::new
LightNew(constructor) ==
    [accounts |-> IF constructor.some
                  THEN AccountsInsert(<<>>, "hyli",
                           [identity |-> "hyli",
                            auth_method |-> AuthPassword(constructor.hyli_password_hash),
                            session_keys |-> <<>>, nonce |-> 0])
                  ELSE <<>>,
     salts |-> IF constructor.some THEN SaltsInsert(<<>>, "hyli", "hyli-random-salt")
               ELSE <<>>,
     invite_code_public_key |-> IF constructor.some THEN constructor.invite_code_public_key
                                ELSE DEFAULT_INVITE_CODE_PUBLIC_KEY,
     status |-> "None", msg |-> "", known |-> FALSE, same |-> FALSE]

LightEnd(light, status, msg, known) ==
    [light EXCEPT !.status = status, !.msg = msg, !.known = known]

\* the Calldata inner_handle builds: the identity is the account of the action
LightCalldata(tx, acc) ==
    [tx EXCEPT !.identity = <<acc>>, !.tx_blob_count = Len(tx.blobs)]

\* LightWalletExecutor::inner_handle on the transaction and index of a call data
inner_handle(light, tx, action) ==
    LET acc == action.account
        cd == LightCalldata(tx, acc)
        account_info == IF acc \in DOMAIN light.accounts THEN light.accounts[acc]
                        ELSE AccountInfoDefault
        invite == check_for_invite_code(acc, action.invite_code, cd,
                                        light.invite_code_public_key)
        res == ApplyAction(account_info, action, cd)
        written == [light EXCEPT
                       !.accounts = AccountsInsert(@, acc, res.account_info),
                       !.salts = IF action.type = "RegisterIdentity"
                                 THEN SaltsInsert(@, acc, action.salt) ELSE @]
    IN  IF action.type = "UpdateInviteCodePublicKey"
        THEN LightEnd(light, "Panic", "unreachable", FALSE)
        ELSE IF acc \notin DOMAIN light.accounts
        THEN LightEnd(light, "Err", "Account not found", FALSE)
        ELSE IF action.type = "RegisterIdentity" /\ ~invite.ok
        THEN LightEnd(light, "Err", invite.msg, TRUE)
        ELSE LightEnd(written, IF res.ok THEN "Ok" ELSE "Err", res.msg, TRUE)

\* LightWalletExecutor::handle_blob
handle_blob(light, tx) ==
    LET parsed == parse_raw_calldata(tx)
    IN  IF ~parsed.ok
        THEN LightEnd(light, "Err", "Failed to parse structured blob from transaction", FALSE)
        ELSE inner_handle(light, tx, parsed.action)

InitLight ==
    /\ \E m \in Constructors :
        /\ invite_code_public_key = construct_state(m).invite_code_public_key
        /\ smt = construct_state(m).smt
        /\ salts = construct_state(m).salts
        /\ hist = HistOf(construct_state(m))
        /\ fn_result = LightNew(m)
    /\ pc = "idle"
    /\ calldata = NoCalldata
    /\ metadata = NoView
    /\ output = NoOutput
    /\ zk_view = NoView
    /\ guest = NoGuest
    /\ prev = NoPrev
    /\ fn_args = NoArgs

HyliSecrets == {"hyli_pw", "pw2"}

HyliActions ==
    {RegisterIdentity("hyli", 0, "salt1", AuthPassword(Hex("hyli_pw")), "code1")}
    \cup UNION {{VerifyIdentity("hyli", n), AddSessionKey("hyli", Hex("k1"), 2, None, NoLane, n),
                 RemoveSessionKey("hyli", Hex("k1"), n), UseSessionKey("hyli", n)} :
                n \in Nonces}

\* transactions of hyli: the action, the secret, and a secp256k1 blob (the invite of
\* a registration, or the session key's signature) made for the transaction identity
\* or for the bare account name
HyliCalldatas ==
    {TxCalldata("hyli", <<>>, action,
                <<RawBlob("check_secret", pw),
                  Secp256k1Blob(id,
                                IF action.type = "RegisterIdentity"
                                THEN InviteMsg("code1", "hyli") ELSE NonceMsg(action.nonce),
                                IF action.type = "RegisterIdentity"
                                THEN DEFAULT_INVITE_CODE_PUBLIC_KEY ELSE "k1")>>,
                DefaultCtx) :
        action \in HyliActions, pw \in HyliSecrets, id \in {TxIdentity("hyli"), <<"hyli">>}}

LightCalldatas ==
    HyliCalldatas \cup MismatchRegisterCalldatas \cup UpdateInviteCalldatas(Wallet)
    \cup UndecodableCalldatas

\* the host handles a blob
LightHostHandle == \E cd \in LightCalldatas : HandleBlob(cd)

\* the light executor holds, for the account of the action, the record the host held
LightRecordIsHosts ==
    LET parsed == parse_raw_calldata(calldata)
    IN  /\ parsed.ok
        /\ parsed.action.account \in DOMAIN fn_result.accounts
        /\ fn_result.accounts[parsed.action.account]
              = StoredRecord(prev.wallet, parsed.action.account)

\* the light executor handles the blob the host handled
LightHandleBlob ==
    /\ pc = "returned"
    /\ pc' = "compared"
    /\ fn_result' = [handle_blob(fn_result, calldata) EXCEPT !.same = LightRecordIsHosts]
    /\ UNCHANGED <<invite_code_public_key, smt, salts, calldata, metadata, output, zk_view,
                   guest, prev, hist, fn_args>>

LightReturn ==
    /\ pc = "compared"
    /\ pc' = "idle"
    /\ calldata' = NoCalldata
    /\ metadata' = NoView
    /\ output' = NoOutput
    /\ zk_view' = NoView
    /\ guest' = NoGuest
    /\ prev' = NoPrev
    /\ fn_result' = [LightEnd(fn_result, "None", "", FALSE) EXCEPT !.same = FALSE]
    /\ UNCHANGED <<invite_code_public_key, smt, salts, hist, fn_args>>

NextLight ==
    \/ LightHostHandle
    \/ LightHandleBlob
    \/ LightReturn

SpecLight == InitLight /\ [][NextLight]_vars

Compared == pc = "compared"

LightSucceeded == fn_result.status = "Ok"

HostHandledOk == output.ret = "Ok" /\ output.output.success

\* C36 (as claimed): the light executor reports success for exactly the blobs for
\* which the host reports success, and always returns a result.
C36_LightAgreesWithHost ==
    Compared =>
        /\ fn_result.status # "Panic"
        /\ LightSucceeded <=> HostHandledOk

\* what the light executor gives: on an account it knows with the record the host
\* holds, for the actions authenticated by the password, it agrees with the host
C36_LightAgreesOnKnownAccounts ==
    (/\ Compared
     /\ fn_result.known
     /\ fn_result.same
     /\ parse_raw_calldata(calldata).action.type
           \in {"RegisterIdentity", "VerifyIdentity", "AddSessionKey", "RemoveSessionKey"})
        => (LightSucceeded <=> HostHandledOk)

\* a registration the host accepted and the light executor refused
C36_RegistrationWitness ==
    /\ Compared
    /\ parse_raw_calldata(calldata).action.type = "RegisterIdentity"
    /\ HostHandledOk
    /\ fn_result.status = "Err"
    /\ fn_result.msg = "Account not found"

\* an UpdateInviteCodePublicKey the host accepted, on which the light executor panics
C36_UpdateWitness ==
    /\ Compared
    /\ parse_raw_calldata(calldata).action.type = "UpdateInviteCodePublicKey"
    /\ HostHandledOk
    /\ fn_result.status = "Panic"

\* both succeed on a known account
C36_AgreementWitness ==
    /\ Compared
    /\ fn_result.known
    /\ fn_result.same
    /\ parse_raw_calldata(calldata).action.type = "AddSessionKey"
    /\ LightSucceeded
    /\ HostHandledOk

\* ------------------------------------------------------------------ signing connections
\* The signing service with its connections: each WebSocket connection has a handler
\* task (handle_ws) and a bounded channel drained by its send task; an HTTP handler
\* submits signatures. pending_requests is behind a lock: a task holds it from the
\* lookup of submit_signature until the response is in the requester's channel.
\* The channel of the source holds 32 messages, the model's ChannelCapacity.
Conns == {"c1", "c2"}

\* the connections whose client may stop reading or go away
StallingConns == {"c1"}

Tasks == Conns \cup {"http"}

NoRequest == [pending |-> FALSE, response_tx |-> "", registrant |-> ""]

IdleTask == [pc |-> "idle", request_id |-> "", kind |-> "", to |-> "", registrant |-> ""]

InitConn ==
    /\ invite_code_public_key = construct_state(NoConstructor).invite_code_public_key
    /\ smt = construct_state(NoConstructor).smt
    /\ salts = construct_state(NoConstructor).salts
    /\ hist = HistOf(construct_state(NoConstructor))
    /\ pc = "idle"
    /\ calldata = NoCalldata
    /\ metadata = NoView
    /\ output = NoOutput
    /\ zk_view = NoView
    /\ guest = NoGuest
    /\ prev = NoPrev
    /\ fn_args = NoArgs
    /\ fn_result = [pending_requests |-> [r \in RequestIds |-> NoRequest],
                    forwarded |-> [r \in RequestIds |-> 0],
                    channel |-> [c \in Conns |-> 0],
                    conn |-> [c \in Conns |-> "draining"],
                    lock |-> "",
                    task |-> [t \in Tasks |-> IdleTask]]

\* the handler task t can take a message: it is idle and its connection is open
Ready(t) ==
    /\ fn_result.task[t].pc = "idle"
    /\ t \in Conns => fn_result.conn[t] # "closed"

LockFree == fn_result.lock = ""

\* tx.send(msg).await on the channel of connection c: queued when there is room,
\* refused when the receiver is gone, and waiting otherwise
CanSend(c) == fn_result.conn[c] = "closed" \/ fn_result.channel[c] < ChannelCapacity

AfterSend(channel, conn, c) ==
    IF conn[c] = "closed" THEN channel ELSE [channel EXCEPT ![c] = @ + 1]

\* handle_ws, RegisterSigningRequest: register_request inserts the request with the
\* sender of this connection, then the acknowledgment is sent
WsRegister ==
    \E c \in Conns, r \in RequestIds :
        /\ Ready(c)
        /\ LockFree
        /\ fn_result' =
              [fn_result EXCEPT
                  !.pending_requests[r] =
                      [pending |-> TRUE, response_tx |-> c,
                       registrant |-> IF @.pending THEN @.registrant ELSE c],
                  !.forwarded[r] = 0,
                  !.task[c] = [IdleTask EXCEPT !.pc = "ack", !.request_id = r]]
        /\ UNCHANGED <<fn_args, walletVars>>

\* handle_ws: the SigningRequestAck enters the channel of the connection
WsAck ==
    \E c \in Conns :
        /\ fn_result.task[c].pc = "ack"
        /\ CanSend(c)
        /\ fn_result' = [fn_result EXCEPT
                            !.channel = AfterSend(@, fn_result.conn, c),
                            !.task[c] = IdleTask]
        /\ UNCHANGED <<fn_args, walletVars>>

\* mutant: a request that is looked up stays in the map
RemoveRequest_keeping(pending_requests, r) == pending_requests

\* requests.remove(request_id)
RemoveRequest(pending_requests, r) == [pending_requests EXCEPT ![r] = NoRequest]

\* handle_ws, CancelSigningRequest: cancel_request
WsCancel ==
    \E c \in Conns, r \in RequestIds :
        /\ Ready(c)
        /\ LockFree
        /\ fn_result' = [fn_result EXCEPT
                            !.pending_requests = RemoveRequest(@, r),
                            !.task[c] = [IdleTask EXCEPT
                                            !.pc = "cancelled", !.request_id = r,
                                            !.registrant =
                                                fn_result.pending_requests[r].registrant]]
        /\ UNCHANGED <<fn_args, walletVars>>

\* handle_ws takes its next message after a cancel
WsCancelled ==
    \E c \in Conns :
        /\ fn_result.task[c].pc = "cancelled"
        /\ fn_result' = [fn_result EXCEPT !.task[c] = IdleTask]
        /\ UNCHANGED <<fn_args, walletVars>>

\* submit_signature, called by handle_ws or by submit_signature_handler: the lock is
\* taken and the request removed; a request found is kept for the send, with the
\* lock; without one the lock is released and the error returned
SubmitLookup ==
    \E t \in Tasks, r \in RequestIds :
        LET request == fn_result.pending_requests[r]
        IN  /\ Ready(t)
            /\ LockFree
            /\ fn_result' =
                  IF SubmitFinds(request)
                  THEN [fn_result EXCEPT
                           !.pending_requests = RemoveRequest(@, r),
                           !.lock = t,
                           !.task[t] = [pc |-> "sending", request_id |-> r, kind |-> "",
                                        to |-> request.response_tx,
                                        registrant |-> request.registrant]]
                  ELSE [fn_result EXCEPT
                           !.task[t] = [IdleTask EXCEPT !.pc = "answer", !.request_id = r,
                                                        !.kind = "not found or expired"]]
            /\ UNCHANGED <<fn_args, walletVars>>

\* submit_signature, pending.response_tx.send(response).await, the lock still held
SubmitSend ==
    \E t \in Tasks :
        LET to == fn_result.task[t].to
            r == fn_result.task[t].request_id
            sent == fn_result.conn[to] # "closed"
        IN  /\ fn_result.task[t].pc = "sending"
            /\ CanSend(to)
            /\ fn_result' =
                  [fn_result EXCEPT
                      !.channel = AfterSend(@, fn_result.conn, to),
                      !.forwarded[r] = IF sent THEN @ + 1 ELSE @,
                      !.lock = "",
                      !.task[t] = [@ EXCEPT
                                      !.pc = "answer",
                                      !.kind = IF sent THEN "forwarded"
                                               ELSE "Failed to send response to web wallet"]]
            /\ UNCHANGED <<fn_args, walletVars>>

\* the submitter is answered: the HTTP response, or on a connection the SigningError
\* of a failed submit, sent through the channel of that connection
SubmitAnswered ==
    \E t \in Tasks :
        /\ fn_result.task[t].pc = "answer"
        /\ (t \in Conns /\ fn_result.task[t].kind # "forwarded") => CanSend(t)
        /\ fn_result' =
              [fn_result EXCEPT
                  !.channel = IF t \in Conns /\ fn_result.task[t].kind # "forwarded"
                              THEN AfterSend(@, fn_result.conn, t) ELSE @,
                  !.task[t] = IdleTask]
        /\ UNCHANGED <<fn_args, walletVars>>

MinOf(a, b) == IF a < b THEN a ELSE b

\* cleanup_expired under the lock: the requests that have reached the timeout, any
\* of the pending ones, are dropped after a try_send of the timeout error, which
\* never waits
CleanupTick ==
    \E expired \in SUBSET {r \in RequestIds : fn_result.pending_requests[r].pending} :
        /\ LockFree
        /\ fn_result' =
              [fn_result EXCEPT
                  !.pending_requests =
                      [r \in RequestIds |-> IF r \in expired THEN NoRequest ELSE @[r]],
                  !.channel =
                      [c \in Conns |->
                          IF fn_result.conn[c] = "closed" THEN @[c]
                          ELSE MinOf(ChannelCapacity,
                                     @[c] + Cardinality(
                                         {r \in expired :
                                             fn_result.pending_requests[r].response_tx = c}))]]
        /\ UNCHANGED <<fn_args, walletVars>>

\* the send task of a connection forwards a message to the WebSocket
Drain ==
    \E c \in Conns :
        /\ fn_result.conn[c] = "draining"
        /\ fn_result.channel[c] > 0
        /\ fn_result' = [fn_result EXCEPT !.channel[c] = @ - 1]
        /\ UNCHANGED <<fn_args, walletVars>>

\* the client of a connection stops reading: its send task waits in ws_sender.send
StopDraining ==
    \E c \in StallingConns :
        /\ fn_result.conn[c] = "draining"
        /\ fn_result' = [fn_result EXCEPT !.conn[c] = "stalled"]
        /\ UNCHANGED <<fn_args, walletVars>>

\* the connection is closed: the send task ends and the receiver is dropped; the
\* requests it registered stay in the map
CloseConn ==
    \E c \in StallingConns :
        /\ fn_result.conn[c] # "closed"
        /\ fn_result' = [fn_result EXCEPT !.conn[c] = "closed", !.channel[c] = 0]
        /\ UNCHANGED <<fn_args, walletVars>>

NextConn ==
    \/ WsRegister
    \/ WsAck
    \/ WsCancel
    \/ WsCancelled
    \/ SubmitLookup
    \/ SubmitSend
    \/ SubmitAnswered
    \/ CleanupTick
    \/ Drain
    \/ StopDraining
    \/ CloseConn

SpecConn == InitConn /\ [][NextConn]_vars

\* the fair runs of the service: every task that can take its next step takes it; the
\* clients are under no obligation
SpecConnFair ==
    /\ SpecConn
    /\ WF_vars(WsAck)
    /\ WF_vars(WsCancelled)
    /\ WF_vars(SubmitSend)
    /\ WF_vars(SubmitAnswered)
    /\ WF_vars(Drain)

\* a SigningResponse entered the channel of a connection
Forwarded(t) == fn_result.task[t].pc = "answer" /\ fn_result.task[t].kind = "forwarded"

\* C37 (as claimed): a SigningResponse for a request is delivered to the connection
\* that registered it, whichever connection registered the same id later, and a
\* cancel removes only a request of the cancelling connection.
C37_OnlyRegistrantConnection ==
    \A t \in Tasks :
        /\ Forwarded(t) => fn_result.task[t].to = fn_result.task[t].registrant
        /\ (fn_result.task[t].pc = "cancelled" /\ fn_result.task[t].registrant # "") =>
              fn_result.task[t].registrant = t

\* what register_request gives: a pending request carries the sender of a connection
\* and the response goes into the channel of that connection
C37_DeliveredToLatestSender ==
    /\ \A r \in RequestIds :
          fn_result.pending_requests[r].pending =>
              /\ fn_result.pending_requests[r].response_tx \in Conns
              /\ fn_result.pending_requests[r].registrant \in Conns
    /\ \A t \in Tasks : Forwarded(t) => fn_result.task[t].to \in Conns

\* the response of a request of c1 went to c2, which registered the id later
C37_TakeoverWitness ==
    \E t \in Tasks :
        /\ Forwarded(t)
        /\ fn_result.task[t].registrant = "c1"
        /\ fn_result.task[t].to = "c2"

\* c2 cancelled a request of c1
C37_CancelWitness ==
    /\ fn_result.task["c2"].pc = "cancelled"
    /\ fn_result.task["c2"].registrant = "c1"

\* C38: for each registered request at most one submission is forwarded; once it is,
\* the request is gone, and a submit that finds no request is answered 'not found or
\* expired'.
C38_AtMostOneSubmitSucceeds ==
    \A r \in RequestIds :
        /\ fn_result.forwarded[r] <= 1
        /\ fn_result.forwarded[r] = 1 => ~fn_result.pending_requests[r].pending
        /\ \A t \in Tasks :
              (fn_result.task[t].pc = "sending" /\ fn_result.task[t].request_id = r) =>
                  /\ fn_result.forwarded[r] = 0
                  /\ fn_result.lock = t

\* a second submit for a request already forwarded, by another task, met the error
C38_Witness ==
    \E r \in RequestIds, t, u \in Tasks :
        /\ t # u
        /\ Forwarded(t)
        /\ fn_result.task[t].request_id = r
        /\ fn_result.forwarded[r] = 1
        /\ fn_result.task[u].pc = "answer"
        /\ fn_result.task[u].request_id = r
        /\ fn_result.task[u].kind = "not found or expired"

LockHeld == fn_result.lock # ""

\* C39 (as claimed): the lock on pending_requests is always released, so the
\* operations waiting for it complete, whatever a connection does with its channel.
C39_LockReleased == LockHeld ~> ~LockHeld

\* the lock is held only by a submit_signature that has found its request
C39_LockHeldOnlyToSend ==
    LockHeld =>
        /\ fn_result.lock \in Tasks
        /\ fn_result.task[fn_result.lock].pc = "sending"

\* submit_signature waits, with the lock, on the full channel of a connection that
\* stopped draining, while the other connection is ready for a message
C39_BlockedWitness ==
    /\ LockHeld
    /\ fn_result.task[fn_result.lock].to = "c1"
    /\ fn_result.conn["c1"] = "stalled"
    /\ fn_result.channel["c1"] = ChannelCapacity
    /\ Ready("c2")
    /\ fn_result.pending_requests["r2"].pending
    /\ fn_result.task[fn_result.lock].request_id = "r1"

\* ---------------------------------------------------------------------------
\* ProverModule: the contract state kept along the sequenced transactions
\* ---------------------------------------------------------------------------

\* the hashes of the transactions of the blocks
ProverTxs == {"t1", "t2", "t3"}

\* ctx.contract_name
ProvedContract == "wallet"

\* the contract_name of the blobs of a transaction
ProverBlobLists == {<<"wallet">>, <<"other">>, <<"wallet", "wallet">>, <<"other", "wallet">>}

\* Contract::default(); a contract state is told by the blobs it has handled, in order
DefaultContract == <<>>

\* Contract::handle on the blob at the index of the transaction
ContractHandle(contract, tx, index) == Append(contract, <<tx, index>>)

\* ProverModule::build with an empty store
NewProverModule ==
    [unsettled_txs |-> <<>>, state_history |-> <<>>, contract |-> DefaultContract]

\* iter().position(..) on a sequence of hashes: 0 for None, else the place counted from 1
PositionOf(hashes, tx) ==
    IF \E i \in 1..Len(hashes) : hashes[i] = tx
    THEN CHOOSE i \in 1..Len(hashes) :
            /\ hashes[i] = tx
            /\ \A j \in 1..(i - 1) : hashes[j] # tx
    ELSE 0

\* the hashes of state_history
HistoryHashes(state_history) == [i \in 1..Len(state_history) |-> state_history[i][1]]

\* state_history.retain(|(h, _)| h != &tx)
RetainOthers(state_history, tx) == SelectSeq(state_history, LAMBDA e : e[1] # tx)

\* prove_supported_blob: handles the blob on self.contract and pushes the state reached
prove_supported_blob(module, index, tx) ==
    LET contract == ContractHandle(module.contract, tx, index)
    IN  [module EXCEPT !.contract = contract,
                       !.state_history = Append(@, <<tx, contract>>)]

\* handle_blob, the loop over the blobs from the place i
RECURSIVE ProveBlobsFrom(_, _, _, _)
ProveBlobsFrom(module, tx, blobs, i) ==
    IF i > Len(blobs) THEN module
    ELSE ProveBlobsFrom(IF blobs[i] = ProvedContract
                        THEN prove_supported_blob(module, i - 1, tx)
                        ELSE module,
                        tx, blobs, i + 1)

\* ProverModule::handle_blob
ProverHandleBlob(module, tx, blobs) ==
    [ProveBlobsFrom(module, tx, blobs, 1) EXCEPT !.unsettled_txs = Append(@, tx)]

\* settle_tx: removes the transaction from unsettled_txs
settle_tx(module, tx) ==
    LET pos == PositionOf(module.unsettled_txs, tx)
    IN  IF pos = 0 THEN module
        ELSE [module EXCEPT !.unsettled_txs =
                SubSeq(@, 1, pos - 1) \o SubSeq(@, pos + 1, Len(@))]

\* settle_tx_success: state_history keeps the entries from the first one of tx on
settle_tx_success(module, tx) ==
    LET pos == PositionOf(HistoryHashes(module.state_history), tx)
    IN  settle_tx(IF pos = 0 THEN module
                  ELSE [module EXCEPT !.state_history = SubSeq(@, pos, Len(@))],
                  tx)

\* handle_all_next_blobs, the loop over the blobs of one transaction
RECURSIVE ReexecuteBlobsFrom(_, _, _, _)
ReexecuteBlobsFrom(module, tx, blobs, i) ==
    IF i > Len(blobs) THEN module
    ELSE ReexecuteBlobsFrom(
            IF blobs[i] = ProvedContract
            THEN prove_supported_blob(
                    [module EXCEPT !.state_history = RetainOthers(@, tx)], i - 1, tx)
            ELSE module,
            tx, blobs, i + 1)

\* handle_all_next_blobs, the loop over unsettled_txs.clone() from the place k
RECURSIVE ReexecuteTxsFrom(_, _, _, _)
ReexecuteTxsFrom(module, unsettled, blobs_of, k) ==
    IF k > Len(unsettled) THEN module
    ELSE ReexecuteTxsFrom(
            ReexecuteBlobsFrom(module, unsettled[k], blobs_of[unsettled[k]], 1),
            unsettled, blobs_of, k + 1)

\* handle_all_next_blobs
handle_all_next_blobs(module, failed_tx, blobs_of) ==
    LET idx == PositionOf(module.unsettled_txs, failed_tx)
        i == PositionOf(HistoryHashes(module.state_history), failed_tx)
        reverted == [module EXCEPT !.contract =
                        IF i > 1 THEN module.state_history[i - 1][2]
                        ELSE DefaultContract]
    IN  ReexecuteTxsFrom(reverted, module.unsettled_txs, blobs_of,
                         (IF idx = 0 THEN 1 ELSE idx) + 1)

\* settle_tx_failed
settle_tx_failed(module, tx, blobs_of) ==
    LET replayed == handle_all_next_blobs(module, tx, blobs_of)
    IN  settle_tx([replayed EXCEPT !.state_history = RetainOthers(@, tx)], tx)

NoSettlement == [op |-> "", tx |-> ""]

InitProver ==
    /\ invite_code_public_key = construct_state(NoConstructor).invite_code_public_key
    /\ smt = construct_state(NoConstructor).smt
    /\ salts = construct_state(NoConstructor).salts
    /\ hist = HistOf(construct_state(NoConstructor))
    /\ pc = "idle"
    /\ calldata = NoCalldata
    /\ metadata = NoView
    /\ output = NoOutput
    /\ zk_view = NoView
    /\ guest = NoGuest
    /\ prev = NoPrev
    /\ fn_args \in [ProverTxs -> ProverBlobLists]
    /\ fn_result = [module |-> NewProverModule,
                    sequenced |-> <<>>,
                    status |-> [tx \in ProverTxs |-> ""],
                    last |-> NoSettlement]

HasProvedBlob(tx) == \E i \in 1..Len(fn_args[tx]) : fn_args[tx][i] = ProvedContract

\* the node settles the transactions of one contract in the order it sequenced them:
\* a transaction with a blob of the proved contract settles when none before it, with
\* such a blob, is unsettled
NextToSettle(tx) ==
    /\ fn_result.status[tx] = "unsettled"
    /\ HasProvedBlob(tx) =>
          \A k \in 1..Len(fn_result.sequenced) :
              LET other == fn_result.sequenced[k]
              IN  (k < PositionOf(fn_result.sequenced, tx) /\ HasProvedBlob(other)) =>
                      fn_result.status[other] # "unsettled"

\* handle_processed_block, a blob transaction of the block
ProverSequence ==
    \E tx \in ProverTxs :
        /\ fn_result.status[tx] = ""
        /\ fn_result' = [fn_result EXCEPT
                            !.module = ProverHandleBlob(@, tx, fn_args[tx]),
                            !.sequenced = Append(@, tx),
                            !.status[tx] = "unsettled",
                            !.last = [op |-> "handle_blob", tx |-> tx]]
        /\ UNCHANGED <<fn_args, walletVars>>

\* handle_processed_block, a hash of block.successful_txs
ProverSettleSuccess ==
    \E tx \in ProverTxs :
        /\ NextToSettle(tx)
        /\ fn_result' = [fn_result EXCEPT
                            !.module = settle_tx_success(@, tx),
                            !.status[tx] = "success",
                            !.last = [op |-> "settle_tx_success", tx |-> tx]]
        /\ UNCHANGED <<fn_args, walletVars>>

\* handle_processed_block, a hash of block.timed_out_txs or block.failed_txs
ProverSettleFailed ==
    \E tx \in ProverTxs :
        /\ NextToSettle(tx)
        /\ fn_result' = [fn_result EXCEPT
                            !.module = settle_tx_failed(@, tx, fn_args),
                            !.status[tx] = "failed",
                            !.last = [op |-> "settle_tx_failed", tx |-> tx]]
        /\ UNCHANGED <<fn_args, walletVars>>

NextProver ==
    \/ ProverSequence
    \/ ProverSettleSuccess
    \/ ProverSettleFailed

SpecProver == InitProver /\ [][NextProver]_vars

\* the blobs of the proved contract of the transactions, handled in order
RECURSIVE Replay(_, _)
Replay(txs, k) ==
    IF k = 0 THEN NewProverModule
    ELSE ProveBlobsFrom(Replay(txs, k - 1), txs[k], fn_args[txs[k]], 1)

\* the sequenced transactions that have not failed
NotFailed == SelectSeq(fn_result.sequenced, LAMBDA tx : fn_result.status[tx] # "failed")

\* the state without the failed transactions: the successful and the unsettled ones
\* executed in the order they were sequenced
StateWithoutFailed == Replay(NotFailed, Len(NotFailed)).contract

JustFailed == fn_result.last.op = "settle_tx_failed"

\* C40 (as claimed): after settle_tx_failed(tx), for a transaction with or without a
\* blob of the proved contract, the contract state is the state before tx with the
\* unsettled transactions after it executed again: the effects of the transactions
\* settled as successful are there and those of tx are not.
C40_RollbackRestoresState ==
    JustFailed => fn_result.module.contract = StateWithoutFailed

\* every transaction that has failed carried a blob of the proved contract
FailuresOnProvedBlobs ==
    \A tx \in ProverTxs : fn_result.status[tx] = "failed" => HasProvedBlob(tx)

\* what the rollback gives: when the failed transactions all carry a blob of the proved
\* contract, the state after settle_tx_failed is the state without them
C40_RollbackOfProvedBlobs ==
    (JustFailed /\ FailuresOnProvedBlobs) =>
        fn_result.module.contract = StateWithoutFailed

\* a transaction without a blob of the proved contract failed after another one had
\* settled as successful, and the contract is back at its default
C40_LostWitness ==
    /\ JustFailed
    /\ ~HasProvedBlob(fn_result.last.tx)
    /\ \E tx \in ProverTxs : fn_result.status[tx] = "success" /\ HasProvedBlob(tx)
    /\ fn_result.module.contract = DefaultContract

\* a transaction with a blob of the proved contract failed between a successful one and
\* an unsettled one, both with such a blob
C40_RollbackWitness ==
    /\ JustFailed
    /\ FailuresOnProvedBlobs
    /\ \E tx, after \in ProverTxs :
          /\ fn_result.status[tx] = "success"
          /\ HasProvedBlob(tx)
          /\ fn_result.status[after] = "unsettled"
          /\ HasProvedBlob(after)
          /\ PositionOf(fn_result.sequenced, after) >
                PositionOf(fn_result.sequenced, fn_result.last.tx)
    /\ fn_result.module.contract = StateWithoutFailed

====
